---------------------------- MODULE Spec2Model ----------------------------
(***************************************************************************)
(* A model of the region decoder of blocksage-cpp: ByteBuffer              *)
(* (include/byte_buffer.h), NBTParser (src/nbt_parser.cpp), RegionReader   *)
(* (src/region_reader.cpp) and Region (src/region.cpp), and of the worker  *)
(* threads of the Renderer (src/renderer/renderer.cpp).                    *)
(*                                                                         *)
(* The specifications share the variables:                                 *)
(*   Spec    one call of RegionReader::getRegion on an input file,         *)
(*           followed by Region::getBlockAt queries on the result;         *)
(*   SpecBB  a ByteBuffer under an arbitrary sequence of seeks and reads;  *)
(*   SpecNBT one call of NBTParser::parseNBT on a buffer;                  *)
(*   SpecFn  one call of processSection or of the bit length expression;   *)
(*   SpecNBTFair   SpecNBT in which the parser keeps taking steps;         *)
(*   SpecRenderer  the Renderer's worker threads, the queueing of sections *)
(*           and the destructor, with every runnable thread scheduled.     *)
(*                                                                         *)
(* Representation.  The six-fold nested vector RegionData is kept sparse:  *)
(* `data` maps the chunk slots <<cx, cz>> that were assigned to a chunk,   *)
(* a chunk maps the section slots that were written to a section, and a    *)
(* section is the full array [a][b][c] of 16 x 16 x 16 block ids.  A slot  *)
(* that is absent holds the value the constructors gave it: 0xFFFF in      *)
(* every cell.  zlib and the NBT byte format are not modelled here: a      *)
(* chunk payload is given by its header fields, the outcome of inflate and *)
(* the tag tree that parseNBT returns.                                     *)
(***************************************************************************)
EXTENDS Integers, Sequences, FiniteSets, TLC

VARIABLES
    file,          \* getRegion: the region file read into regionData
    pc,            \* getRegion: position of the calling thread
    dispatchIdx,   \* getRegion: the dispatch loop's chunkIdx
    futures,       \* getRegion: the futures vector, one entry per task
    collected,     \* getRegion: number of futures the collect loop has got
    data,          \* getRegion: the RegionData grid (sparse)
    regionXWorld,  \* getRegion: local regionXWorld
    regionZWorld,  \* getRegion: local regionZWorld
    writes,        \* history: the (chunkXRegion, chunkZRegion) of each grid write
    stray,         \* history: a grid write went outside the grid (undefined behaviour)
    query,         \* the last Region::getBlockAt call and its outcome
    bbData,        \* ByteBuffer::data_
    bbPos,         \* ByteBuffer::position_
    bbLast,        \* the last ByteBuffer call and its outcome
    nbtInput,      \* parseNBT: what the buffer was encoded from
    nbtStack,      \* parseNBT: the activations of parseTag, outermost first
    nbtNodes,      \* parseNBT: the tags constructed so far
    nbtResult,     \* parseNBT: running, returned or thrown
    fnCall,        \* a call of processSection or of the bit length expression
    fnRet,         \* what that call returned
    stopThreads,   \* Renderer::stopThreads
    sectionQueue,  \* Renderer::sectionQueue: the number of queued sections
    queueMutex,    \* Renderer::queueMutex: the set of workers that hold it
    waiting,       \* Renderer::condition: the workers blocked in wait
    workerPc,      \* Renderer: position of each thread in workerFunction
    mainPc,        \* Renderer: position of the thread that owns the Renderer
    queued,        \* Renderer: calls of queueSectionForProcessing so far
    joined         \* ~Renderer: number of threads joined

regionVars == <<file, pc, dispatchIdx, futures, collected, data, regionXWorld, regionZWorld,
                writes, stray, query>>
bbVars == <<bbData, bbPos, bbLast>>
nbtVars == <<nbtInput, nbtStack, nbtNodes, nbtResult>>
fnVars == <<fnCall, fnRet>>
rendVars == <<stopThreads, sectionQueue, queueMutex, waiting, workerPc, mainPc,
              queued, joined>>
vars == <<file, pc, dispatchIdx, futures, collected, data, regionXWorld, regionZWorld,
          writes, stray, query, bbData, bbPos, bbLast,
          nbtInput, nbtStack, nbtNodes, nbtResult, fnCall, fnRet,
          stopThreads, sectionQueue, queueMutex, waiting, workerPc, mainPc,
          queued, joined>>

----------------------------------------------------------------------------
(* Program constants. *)

N_CHUNKS_PER_REGION_XZ == 32
CHUNK_SIZE_Y == 384
SECTION_SIZE == 16
MIN_Y == -64
N_SECTIONS_PER_CHUNK_Y == CHUNK_SIZE_Y \div SECTION_SIZE
ZLIB_COMPRESSION_TYPE == 2
SECTOR_BYTES == 4096
TOTAL_SECTION_BLOCKS == SECTION_SIZE * SECTION_SIZE * SECTION_SIZE
\* 0xFFFF, the fill value of every grid cell
NoData == 65535
\* the only chunk index the dispatch loop does not skip
DebugChunkIdx == 50
\* std::string::substr(10): the length of "minecraft:"
NamePrefixLen == 10
\* the least bit length processSection is called with
MinBitLength == 4
\* bits of a uint64_t
LongBits == 64
\* bits of a uint16_t
IndexBits == 16
\* chunk header: 4 length bytes and 1 compression byte
ChunkHeaderBytes == 5
\* the value regionXWorld and regionZWorld start with
NoRegion == -1

----------------------------------------------------------------------------
(* C++ integer arithmetic. *)

Min(a, b) == IF a <= b THEN a ELSE b
Max(a, b) == IF a >= b THEN a ELSE b

\* a / b on int, b > 0: truncation toward zero
CDiv(a, b) == IF a >= 0 THEN a \div b ELSE -((-a) \div b)
\* a % b on int, b > 0: the sign of the dividend
CMod(a, b) == a - b * CDiv(a, b)

\* static_cast<int8_t>(v)
ToInt8(v) == LET m == v % 256 IN IF m >= 128 THEN m - 256 ELSE m

RECURSIVE Pow2(_)
Pow2(n) == IF n = 0 THEN 1 ELSE 2 * Pow2(n - 1)

\* int(ceil(log2(n))) for n >= 1: the least k with 2^k >= n
RECURSIVE CeilLog2From(_, _)
CeilLog2From(n, k) == IF Pow2(k) >= n THEN k ELSE CeilLog2From(n, k + 1)
CeilLog2(n) == CeilLog2From(n, 0)

----------------------------------------------------------------------------
(* Block names, the block id dictionary and 64-bit words. *)

\* A std::string is the sequence of its characters.
NamePrefix == <<"m", "i", "n", "e", "c", "r", "a", "f", "t", ":">>
NameStone == NamePrefix \o <<"s", "t", "o", "n", "e">>
NameDirt == NamePrefix \o <<"d", "i", "r", "t">>
\* a well-formed name the dictionary does not hold
NameModded == NamePrefix \o <<"o", "r", "e">>
\* a name shorter than the prefix
NameShort == <<"a", "i", "r">>

\* blockIdDict: bare name -> id (the caller's dictionary; main.cpp loads it from JSON)
BlockIdDict ==
    (<<"s", "t", "o", "n", "e">> :> 1) @@ (<<"d", "i", "r", "t">> :> 2)

\* A uint64_t is the sequence of its 64 bits, least significant first.
\* The word whose 4-bit groups, from the least significant, are ns (then zeros).
WordOfNibbles(ns) ==
    [b \in 1..LongBits |->
        LET n == (b - 1) \div 4
        IN  IF n + 1 <= Len(ns) THEN (ns[n + 1] \div Pow2((b - 1) % 4)) % 2 ELSE 0]

\* (value >> shift) & ((1ULL << width) - 1), converted to uint16_t
RECURSIVE BitsValue(_, _, _)
BitsValue(value, shift, width) ==
    IF width = 0 THEN 0
    ELSE value[shift + 1] + 2 * BitsValue(value, shift + 1, width - 1)
ExtractIndex(value, shift, width) == BitsValue(value, shift, Min(width, IndexBits))

----------------------------------------------------------------------------
(* RegionReader::processSection *)

\* A thrown exception.
\* throw what(msg): the exception's type and its message
ThrowMsg(what, msg) == [kind |-> "error", what |-> what, ub |-> FALSE, msg |-> msg]
Throw(what) == ThrowMsg(what, "")

\* The widths mask = (1ULL << bitLength) - 1 can have.  1ULL << 64 is
\* undefined: the shift count is taken modulo 64 (mask = 0) or the shift
\* gives 0 (mask = all ones).
MaskBits(bitLength) == IF bitLength = LongBits THEN {0, LongBits} ELSE {bitLength}

\* processSection with a mask of maskBits ones.
ProcessSectionMasked(longs, bitLength, maskBits) ==
    IF bitLength <= 0 \/ bitLength > LongBits
    THEN Throw("invalid_argument")
    ELSE LET indicesPerLong == LongBits \div bitLength
             n == Min(TOTAL_SECTION_BLOCKS, Len(longs) * indicesPerLong)
         IN  [kind |-> "ok",
              result |-> [k \in 1..n |->
                  ExtractIndex(longs[((k - 1) \div indicesPerLong) + 1],
                               ((k - 1) % indicesPerLong) * bitLength,
                               maskBits)]]

\* processSection for a bit length below 64, as readAndProcessChunk calls it.
ProcessSection(longs, bitLength) == ProcessSectionMasked(longs, bitLength, bitLength)

\* A bit length computed from the number of bits of the palette size.
BitLengthOfSize(paletteSize) == Max(MinBitLength, CeilLog2(paletteSize + 1))

\* std::max(4, int(ceil(log2(palette.size())))); log2(0) is -inf, whose
\* conversion to int is INT_MIN on the usual targets, so max gives 4.
BitLength(paletteSize) ==
    IF paletteSize = 0 THEN MinBitLength
    ELSE Max(MinBitLength, CeilLog2(paletteSize))

----------------------------------------------------------------------------
(* RegionReader::readAndProcessChunk *)

\* SectionData(SECTION_SIZE, SectionPlaneData(SECTION_SIZE,
\*     SectionLineData(SECTION_SIZE, 0xFFFF)))
EmptySection ==
    [a \in 0..(SECTION_SIZE - 1) |->
        [b \in 0..(SECTION_SIZE - 1) |-> [c \in 0..(SECTION_SIZE - 1) |-> NoData]]]

\* ChunkData(N_SECTIONS_PER_CHUNK_Y, SectionData(...)): no section written yet
EmptyChunk == << >>

SectionOf(chunk, s) == IF s \in DOMAIN chunk THEN chunk[s] ELSE EmptySection

\* The palette loop: the Name string of every compound entry that has one,
\* with its first 10 characters removed.  substr(10) throws out_of_range when
\* the name is shorter than 10 characters.
RECURSIVE PaletteNames(_)
PaletteNames(entries) ==
    IF entries = << >> THEN [kind |-> "ok", palette |-> << >>]
    ELSE LET e == Head(entries)
             rest == PaletteNames(Tail(entries))
         IN  IF ~e.hasName THEN rest
             ELSE IF Len(e.name) < NamePrefixLen
                  THEN Throw("out_of_range")
             ELSE IF rest.kind = "error" THEN rest
             ELSE [kind |-> "ok",
                   palette |-> <<SubSeq(e.name, NamePrefixLen + 1, Len(e.name))>>
                               \o rest.palette]

\* The vector the conversion loop iterates over.  The result of
\* processSection is assigned to a new variable declared inside the if
\* block, so the outer vector keeps its 4096 zeros.
FlatSectionBlockIndices(sectionData, palette) ==
    [k \in 1..TOTAL_SECTION_BLOCKS |-> 0]

\* The flat index whose block the loop stores at chunkBlocks[..][a][b][c]:
\* sy = i / 256, sz = (i / 16) % 16, sx = i % 16 and the store is [sy][sz][sx].
FlatIndexOfCell(a, b, c) == a * (SECTION_SIZE * SECTION_SIZE) + b * SECTION_SIZE + c

\* The conversion loop of one section.  acc = [blocks, ub, paletteOob,
\* outside]; paletteOob records that the loop indexed palette at or behind
\* its size, outside that it stored through chunkBlocks[sectionYIndex] with
\* sectionYIndex outside the vector, ub that it did either: ub records that
\* the loop indexed palette or chunkBlocks out of range (undefined behaviour).
ConvertSection(acc, sectionYIndex, palette, flat, dict) ==
    LET count == Len(flat)
        paletteOob == \E k \in 1..count : flat[k] >= Len(palette)
        Known(k) == /\ flat[k] < Len(palette)
                    /\ palette[flat[k] + 1] \in DOMAIN dict
        anyKnown == \E k \in 1..count : Known(k)
        inChunk == sectionYIndex \in 0..(N_SECTIONS_PER_CHUNK_Y - 1)
        old == SectionOf(acc.blocks, sectionYIndex)
        new == [a \in 0..(SECTION_SIZE - 1) |->
                 [b \in 0..(SECTION_SIZE - 1) |->
                   [c \in 0..(SECTION_SIZE - 1) |->
                     LET k == FlatIndexOfCell(a, b, c) + 1
                     IN  IF k <= count /\ Known(k)
                         THEN dict[palette[flat[k] + 1]]
                         ELSE old[a][b][c]]]]
    IN  [blocks |-> IF anyKnown /\ inChunk
                    THEN [s \in (DOMAIN acc.blocks) \cup {sectionYIndex} |->
                            IF s = sectionYIndex THEN new ELSE acc.blocks[s]]
                    ELSE acc.blocks,
         ub |-> acc.ub \/ paletteOob \/ (anyKnown /\ ~inChunk),
         paletteOob |-> acc.paletteOob \/ paletteOob,
         outside |-> acc.outside \/ (anyKnown /\ ~inChunk)]

\* One iteration of the loop over the sections list.
ProcessSectionEntry(acc, sectionEntry, dict) ==
    LET sectionYValue == ToInt8(sectionEntry.Y)
        sectionYIndex == sectionYValue - CDiv(MIN_Y, SECTION_SIZE)
        names == PaletteNames(sectionEntry.palette.entries)
    IN  IF ~sectionEntry.palette.isList THEN [kind |-> "ok", acc |-> acc]
        ELSE IF names.kind = "error" THEN names
        ELSE LET unpacked ==
                     IF sectionEntry.data.isLongArray
                     THEN ProcessSection(sectionEntry.data.longs,
                                         BitLength(Len(names.palette)))
                     ELSE [kind |-> "ok", result |-> << >>]
             IN  IF unpacked.kind = "error" THEN unpacked
                 ELSE [kind |-> "ok",
                       acc |-> ConvertSection(acc, sectionYIndex, names.palette,
                                   FlatSectionBlockIndices(sectionEntry.data,
                                                           names.palette),
                                   dict)]

RECURSIVE ProcessSections(_, _, _)
ProcessSections(acc, sections, dict) ==
    IF sections = << >> THEN [kind |-> "ok", acc |-> acc]
    ELSE LET one == ProcessSectionEntry(acc, Head(sections), dict)
         IN  IF one.kind = "error" THEN [one EXCEPT !.ub = acc.ub]
             ELSE ProcessSections(one.acc, Tail(sections), dict)

\* chunkDataStream = [bytes: the length of the slice, payload: what it holds].
\* payload = [length, compression: the header; inflates, parses: whether
\* inflate and parseNBT succeed; root: the tag tree parseNBT returns].
\* Line 222.  chunkDataLength is the uint32_t read from the header's four
\* bytes; the model keeps the same four bytes as the int32_t they also
\* spell (p.length), so the uint32_t is zero exactly when p.length is zero,
\* and is 2^32 + p.length, more than any stream holds, when p.length is
\* negative.
InvalidChunkMsg == "Invalid chunk or unsupported compression type"
InvalidHeader(chunkDataLength, compressionType) ==
    chunkDataLength = 0 \/ compressionType # ZLIB_COMPRESSION_TYPE

ReadAndProcessChunk(chunkDataStream, dict) ==
    LET p == chunkDataStream.payload
    IN  IF chunkDataStream.bytes < ChunkHeaderBytes
        THEN Throw("out_of_range")
        ELSE IF InvalidHeader(p.length, p.compression)
        THEN ThrowMsg("runtime_error", InvalidChunkMsg)
        ELSE IF p.length < 0
                \/ ChunkHeaderBytes + (p.length - 1) > chunkDataStream.bytes
        THEN Throw("out_of_range")
        ELSE IF ~p.inflates
        THEN ThrowMsg("runtime_error", "Failed to decompress chunk data")
        ELSE IF ~p.parses
        THEN Throw("runtime_error")
        ELSE LET chunkXInWorld == p.root.xPos
                 chunkZInWorld == p.root.zPos
                 done == ProcessSections([blocks |-> EmptyChunk, ub |-> FALSE,
                                          paletteOob |-> FALSE, outside |-> FALSE],
                                         p.root.sections, dict)
             IN  IF done.kind = "error" THEN done
                 ELSE [kind |-> "ok",
                       ub |-> done.acc.ub,
                       paletteOob |-> done.acc.paletteOob,
                       outside |-> done.acc.outside,
                       chunkXInRegion |-> CMod(chunkXInWorld, N_CHUNKS_PER_REGION_XZ),
                       chunkZInRegion |-> CMod(chunkZInWorld, N_CHUNKS_PER_REGION_XZ),
                       chunkXInWorld |-> chunkXInWorld,
                       chunkZInWorld |-> chunkZInWorld,
                       chunkBlocks |-> done.acc.blocks]

----------------------------------------------------------------------------
(* The input: a region file.                                               *)
(*                                                                         *)
(* `file` names, for each of a few location-table slots, what the file     *)
(* holds for it; every other slot of the table is zero.  The file is two   *)
(* header sectors followed by one sector per candidate slot, and the chunk *)
(* of the k-th candidate slot, when present, is stored in sector 2 + k.    *)

CandidateSlots == <<0, 50, 51>>
SlotSet == {CandidateSlots[k] : k \in 1..Len(CandidateSlots)}
SectorOfSlot(i) == 1 + (CHOOSE k \in 1..Len(CandidateSlots) : CandidateSlots[k] = i)
FileSectors == 2 + Len(CandidateSlots)
FileSize == FileSectors * SECTOR_BYTES

\* block_states of a section without a data array: palette <<name>>
Uniform(y, name) ==
    [Y |-> y,
     palette |-> [isList |-> TRUE, entries |-> <<[hasName |-> TRUE, name |-> name]>>],
     data |-> [isLongArray |-> FALSE, longs |-> << >>]]

\* A section with palette <<stone, dirt>> and a full data array of 256 words
\* at 4 bits per index: index 1 (dirt) at every flat index i with
\* i % 16 \in {0, 3}, index 0 (stone) elsewhere.
Packed(y) ==
    [Y |-> y,
     palette |-> [isList |-> TRUE,
                  entries |-> <<[hasName |-> TRUE, name |-> NameStone],
                                [hasName |-> TRUE, name |-> NameDirt]>>],
     data |-> [isLongArray |-> TRUE,
               longs |-> [w \in 1..(TOTAL_SECTION_BLOCKS \div 16) |->
                            WordOfNibbles(<<1, 0, 0, 1>>)]]]

\* As Packed, with the palette <<stone, a name the dictionary lacks>>.
PackedModded(y) ==
    [Packed(y) EXCEPT !.palette.entries =
        <<[hasName |-> TRUE, name |-> NameStone],
          [hasName |-> TRUE, name |-> NameModded]>>]

\* A section whose palette list holds no entry with a Name.
Nameless(y) ==
    [Y |-> y,
     palette |-> [isList |-> TRUE, entries |-> <<[hasName |-> FALSE, name |-> << >>]>>],
     data |-> [isLongArray |-> FALSE, longs |-> << >>]]

\* A section whose palette list has no entries.
EmptyPalette(y) == [Nameless(y) EXCEPT !.palette.entries = << >>]

Chunk(x, z, sections) ==
    [length |-> 100, compression |-> ZLIB_COMPRESSION_TYPE,
     inflates |-> TRUE, parses |-> TRUE,
     root |-> [xPos |-> x, zPos |-> z, sections |-> sections]]

\* A sector of zero bytes.
ZeroPayload ==
    [length |-> 0, compression |-> 0, inflates |-> FALSE, parses |-> FALSE,
     root |-> [xPos |-> 0, zPos |-> 0, sections |-> << >>]]

\* What the file holds for slot i, by kind.  A kind in HomeKinds is a chunk
\* whose xPos, zPos are those of the slot (of region 0, 0).
HomeKinds == {"home", "packed", "packedmodded", "mixed", "shortname", "nameless"}
ChunkKinds == HomeKinds \cup {"origin", "west", "badcomp", "badnbt", "wrapped",
                            "above", "below", "zerolength", "neglength",
                            "badzlib", "emptypalette"}
AboveY == CDiv(MIN_Y, SECTION_SIZE) + N_SECTIONS_PER_CHUNK_Y
BelowY == CDiv(MIN_Y, SECTION_SIZE) - 1
PayloadOf(kind, i) ==
    LET hx == i % N_CHUNKS_PER_REGION_XZ
        hz == i \div N_CHUNKS_PER_REGION_XZ
    IN  CASE kind = "home"      -> Chunk(hx, hz, <<Uniform(-4, NameStone)>>)
          [] kind = "packed"    -> Chunk(hx, hz, <<Packed(0)>>)
          [] kind = "packedmodded" -> Chunk(hx, hz, <<PackedModded(0)>>)
          [] kind = "mixed"     -> Chunk(hx, hz, <<Uniform(-4, NameStone),
                                                   Uniform(1, NameModded)>>)
          [] kind = "shortname" -> Chunk(hx, hz, <<Uniform(-4, NameShort)>>)
          [] kind = "nameless"  -> Chunk(hx, hz, <<Nameless(-4)>>)
          [] kind = "emptypalette" -> Chunk(hx, hz, <<EmptyPalette(-4)>>)
          [] kind = "origin"    -> Chunk(0, 0, <<Uniform(-4, NameDirt)>>)
          [] kind = "west"      -> Chunk(hx - N_CHUNKS_PER_REGION_XZ, hz,
                                         <<Uniform(-4, NameStone)>>)
          [] kind = "badcomp"   -> [Chunk(hx, hz, << >>) EXCEPT !.compression = 1]
          [] kind = "badnbt"    -> [Chunk(hx, hz, << >>) EXCEPT !.parses = FALSE]
          [] kind = "badzlib"   -> [Chunk(hx, hz, << >>) EXCEPT !.inflates = FALSE]
          \* the chunk is as "home"; its location word is not (TableBytes)
          [] kind = "wrapped"   -> Chunk(hx, hz, <<Uniform(-4, NameStone)>>)
          \* sections whose Y is one above and one below the 24 of a chunk
          [] kind = "above"     -> Chunk(hx, hz, <<Uniform(AboveY, NameStone)>>)
          [] kind = "below"     -> Chunk(hx, hz, <<Uniform(BelowY, NameStone)>>)
          \* length fields 00 00 00 00 and FF FF FF FF
          [] kind = "zerolength" -> [Chunk(hx, hz, << >>) EXCEPT !.length = 0]
          [] kind = "neglength" -> [Chunk(hx, hz, << >>) EXCEPT !.length = -1]

\* The kinds each candidate slot is tried with.  "empty": the location word
\* is zero; "beyond": the word names a sector past the end of the file.
KindsAt(i) ==
    IF i = DebugChunkIdx THEN ChunkKinds \cup {"empty", "beyond"}
    ELSE IF i = 0 THEN {"empty", "home"}
    ELSE {"empty", "home", "origin", "badcomp"}
\* A file that ends where the table entry of slot 50 begins: what the table
\* loop reads for the slots from 50 on lies behind the end of regionData and
\* is whatever the memory there holds, zero ("cutzero") or not ("cutword").
ShortFiles ==
    {[i \in SlotSet |-> IF i < DebugChunkIdx THEN "empty" ELSE k] :
        k \in {"cutzero", "cutword"}}
IsShort(f) == \E i \in SlotSet : f[i] \in {"cutzero", "cutword"}
\* A path that cannot be opened.
MissingFile == [i \in SlotSet |-> "missing"]
WholeFiles == {f \in [SlotSet -> ChunkKinds \cup {"empty", "beyond"}] :
                  \A i \in SlotSet : f[i] \in KindsAt(i)}
Files == WholeFiles \cup ShortFiles \cup {MissingFile}
\* regionData.size()
RegionDataSize(f) ==
    IF f = MissingFile THEN 0
    ELSE IF IsShort(f) THEN 4 * DebugChunkIdx
    ELSE FileSize

\* 2^32 / SECTOR_BYTES: uint32_t arithmetic on byte offsets wraps at this
\* many sectors.
WrapSectors == 1048576

\* The four bytes of slot i in the location table: a 3-byte sector offset
\* and a 1-byte sector count.
TableBytes(f, i) ==
    IF i \notin SlotSet \/ f[i] \in {"empty", "cutzero", "missing"} THEN <<0, 0, 0, 0>>
    ELSE IF f[i] = "beyond" THEN <<0, 0, FileSectors, 1>>
    \* sector offset 2^20 + SectorOfSlot(i): its byte offset is 2^32 more
    \* than that of the slot's sector
    ELSE IF f[i] = "wrapped" THEN <<WrapSectors \div 65536, 0, SectorOfSlot(i), 1>>
    ELSE <<0, 0, SectorOfSlot(i), 1>>

\* The payload that starts at sector `sector` of the file.
PayloadAt(f, sector) ==
    IF \E i \in SlotSet : f[i] \in ChunkKinds /\ SectorOfSlot(i) = sector
    THEN LET i == CHOOSE i \in SlotSet : SectorOfSlot(i) = sector
         IN  PayloadOf(f[i], i)
    ELSE ZeroPayload

----------------------------------------------------------------------------
(* RegionReader::getChunkDataStream and the location table *)

\* locations[i]: the big-endian uint32_t of the table's bytes 4i .. 4i+3.  The
\* word is kept as its two fields, word = (off << 8) | cnt, the only parts
\* the reader uses (>> OFFSET_SHIFT and & SECTOR_COUNT_MASK).
LocationWord(bytes) ==
    [off |-> bytes[1] * 65536 + bytes[2] * 256 + bytes[3], cnt |-> bytes[4]]
Locations(f) ==
    [i \in 0..(N_CHUNKS_PER_REGION_XZ * N_CHUNKS_PER_REGION_XZ - 1) |->
        LocationWord(TableBytes(f, i))]
IsZeroWord(w) == w.off = 0 /\ w.cnt = 0

\* offset and sectorCount are uint32_t byte counts, here in sectors.
GetChunkDataStream(locations, chunkIdx, f) ==
    LET offset == locations[chunkIdx].off % WrapSectors
        sectorCount == locations[chunkIdx].cnt
        sum == (offset + sectorCount) % WrapSectors
    IN  IF sum > RegionDataSize(f) \div SECTOR_BYTES THEN Throw("out_of_range")
        ELSE [kind |-> "ok",
              bytes |-> sectorCount * SECTOR_BYTES,
              payload |-> PayloadAt(f, offset)]

\* The body of the task std::async runs for chunkIdx.
ChunkTask(f, chunkIdx) ==
    LET chunkDataStream == GetChunkDataStream(Locations(f), chunkIdx, f)
    IN  IF chunkDataStream.kind = "error" THEN chunkDataStream
        ELSE ReadAndProcessChunk(chunkDataStream, BlockIdDict)

----------------------------------------------------------------------------
(* RegionReader::getRegion *)

\* The shared state of a future before its task is done, and after get()
\* has moved the result out of it.
Pending == [kind |-> "pending"]
Taken == [kind |-> "taken"]

\* The dispatch loop skips every chunk index but one.
DispatchFilter(chunkIdx) == chunkIdx = DebugChunkIdx

\* The chunk indices, from chunkIdx on, for which the dispatch loop creates
\* a task: those that pass the filter and whose location is not zero.
ToDispatch(locations, from) ==
    {i \in from..(N_CHUNKS_PER_REGION_XZ * N_CHUNKS_PER_REGION_XZ - 1) :
        DispatchFilter(i) /\ ~IsZeroWord(locations[i])}

RegionInit ==
    /\ file \in Files
    /\ pc = "open"
    /\ dispatchIdx = 0
    /\ futures = << >>
    /\ collected = 0
    /\ data = << >>
    /\ regionXWorld = NoRegion
    /\ regionZWorld = NoRegion
    /\ writes = << >>
    /\ stray = FALSE
    /\ query = [kind |-> "none"]

\* Lines 390-419: the file is opened and read into regionData, and the loop
\* over the SECTOR_BYTES / 4 table entries reads regionData[0 .. 4095]
\* whatever regionData.size() is.  Behind the end of the vector the reads
\* are undefined: the process dies, or they give what the memory holds.
ReadFile ==
    /\ pc = "open"
    /\ IF file = MissingFile THEN pc' = "failed"
       ELSE \/ pc' = "dispatch"
            \/ /\ RegionDataSize(file) < SECTOR_BYTES
               /\ pc' = "crashed"
    /\ UNCHANGED <<file, dispatchIdx, futures, collected, data, regionXWorld,
                   regionZWorld, writes, stray, query>>

\* Lines 425-442: the loop that creates the tasks, run up to and including
\* the next iteration that creates one (the iterations that only `continue`
\* touch nothing but chunkIdx), or to its end.
Dispatch ==
    /\ pc = "dispatch"
    /\ LET todo == ToDispatch(Locations(file), dispatchIdx)
       IN  IF todo = {}
           THEN /\ dispatchIdx' = N_CHUNKS_PER_REGION_XZ * N_CHUNKS_PER_REGION_XZ
                /\ futures' = futures
                /\ pc' = "collect"
           ELSE LET next == CHOOSE m \in todo : \A n \in todo : m <= n
                IN  /\ dispatchIdx' = next + 1
                    /\ futures' = Append(futures, [chunkIdx |-> next,
                                                   state |-> "running",
                                                   result |-> Pending])
                    /\ pc' = pc
    /\ UNCHANGED <<file, collected, data, regionXWorld, regionZWorld, writes,
                   stray, query>>

\* A task runs to completion on its own thread and stores its value or its
\* exception in the shared state of its future.  Indexing a vector out of
\* range in the task is undefined: the process dies, or the task goes on.
TaskRun(k) ==
    /\ pc # "crashed"
    /\ k \in 1..Len(futures)
    /\ futures[k].state = "running"
    /\ LET r == ChunkTask(file, futures[k].chunkIdx)
       IN  \/ /\ futures' = [futures EXCEPT ![k].state = "ready", ![k].result = r]
              /\ pc' = pc
           \/ /\ r.ub
              /\ pc' = "crashed"
              /\ futures' = futures
    /\ UNCHANGED <<file, dispatchIdx, collected, data, regionXWorld, regionZWorld, writes,
                   stray, query>>

InGrid(cx, cz) ==
    /\ cx \in 0..(N_CHUNKS_PER_REGION_XZ - 1)
    /\ cz \in 0..(N_CHUNKS_PER_REGION_XZ - 1)

\* A test that never finds the origin unset.
OriginAlwaysSet == FALSE
\* if (regionXWorld == -1 || regionZWorld == -1)
OriginUnset == regionXWorld = NoRegion \/ regionZWorld = NoRegion

\* A collect loop that stops one future short.
CollectLoopStopsShort == collected >= Len(futures) - 1
\* The collect loop has got every future.
CollectLoopDone == collected = Len(futures)

\* Lines 446-467: one iteration of the collect loop.  future.get() blocks
\* until the task is done and rethrows its exception, which is caught.
Collect ==
    /\ pc = "collect"
    /\ ~CollectLoopDone
    /\ futures[collected + 1].state = "ready"
    /\ LET r == futures[collected + 1].result
       IN  \/ /\ r.kind = "ok"
              /\ InGrid(r.chunkXInRegion, r.chunkZInRegion)
              /\ data' = [s \in (DOMAIN data) \cup {<<r.chunkXInRegion, r.chunkZInRegion>>} |->
                            IF s = <<r.chunkXInRegion, r.chunkZInRegion>>
                            THEN r.chunkBlocks ELSE data[s]]
              /\ writes' = Append(writes, <<r.chunkXInRegion, r.chunkZInRegion>>)
              /\ IF OriginUnset
                 THEN /\ regionXWorld' = r.chunkXInWorld - (r.chunkXInRegion * SECTION_SIZE)
                      /\ regionZWorld' = r.chunkZInWorld - (r.chunkZInRegion * SECTION_SIZE)
                 ELSE UNCHANGED <<regionXWorld, regionZWorld>>
              /\ UNCHANGED <<pc, stray>>
           \* data[chunkXRegion] with a negative index: the process dies
           \/ /\ r.kind = "ok"
              /\ ~InGrid(r.chunkXInRegion, r.chunkZInRegion)
              /\ pc' = "crashed"
              /\ UNCHANGED <<data, writes, stray, regionXWorld, regionZWorld>>
           \* ... or the assignment lands outside the grid and the loop goes on
           \/ /\ r.kind = "ok"
              /\ ~InGrid(r.chunkXInRegion, r.chunkZInRegion)
              /\ stray' = TRUE
              /\ writes' = writes
              /\ IF OriginUnset
                 THEN /\ regionXWorld' = r.chunkXInWorld - (r.chunkXInRegion * SECTION_SIZE)
                      /\ regionZWorld' = r.chunkZInWorld - (r.chunkZInRegion * SECTION_SIZE)
                 ELSE UNCHANGED <<regionXWorld, regionZWorld>>
              /\ UNCHANGED <<pc, data>>
           \/ /\ r.kind = "error"
              /\ UNCHANGED <<pc, data, writes, stray, regionXWorld, regionZWorld>>
    /\ collected' = collected + 1
    /\ futures' = [futures EXCEPT ![collected + 1].state = "collected",
                                  ![collected + 1].result = Taken]
    /\ UNCHANGED <<file, dispatchIdx, query>>

\* Line 470: return Region(std::move(data), regionXWorld, regionZWorld).
Return ==
    /\ pc = "collect"
    /\ CollectLoopDone
    /\ pc' = "returned"
    /\ UNCHANGED <<file, dispatchIdx, futures, collected, data, regionXWorld, regionZWorld,
                   writes, stray, query>>

----------------------------------------------------------------------------
(* Region *)

\* Region::getSizeX, getSizeY, getSizeZ
GetSizeX == N_CHUNKS_PER_REGION_XZ * SECTION_SIZE
GetSizeY == CHUNK_SIZE_Y
GetSizeZ == N_CHUNKS_PER_REGION_XZ * SECTION_SIZE

\* d[a][b][c][e][f][g] of the (sparse) RegionData d, all indices in range
Cell(d, a, b, c, e, f, g) ==
    IF <<a, b>> \in DOMAIN d THEN SectionOf(d[<<a, b>>], c)[e][f][g] ELSE NoData

\* The six indices Region::getBlockAt(x, y, z) uses, in the order it uses
\* them: data[sx][sz][sy][dx][dy][dz].
BlockIndices(x, y, z) ==
    <<CDiv(x, SECTION_SIZE), CDiv(z, SECTION_SIZE), CDiv(y, SECTION_SIZE),
      CMod(x, SECTION_SIZE), CMod(y, SECTION_SIZE), CMod(z, SECTION_SIZE)>>

\* Whether the six indices are inside the vectors they index.
IndicesInRange(ix) ==
    /\ ix[1] \in 0..(N_CHUNKS_PER_REGION_XZ - 1)
    /\ ix[2] \in 0..(N_CHUNKS_PER_REGION_XZ - 1)
    /\ ix[3] \in 0..(CHUNK_SIZE_Y \div SECTION_SIZE - 1)
    /\ \A k \in 4..6 : ix[k] \in 0..(SECTION_SIZE - 1)

\* The value Region::getBlockAt(x, y, z) returns when its indices are in range.
BlockAt(d, x, y, z) ==
    LET ix == BlockIndices(x, y, z)
    IN  Cell(d, ix[1], ix[2], ix[3], ix[4], ix[5], ix[6])

\* The coordinates getBlockAt is called with.
QueryPoints ==
    {<<288, 0, 16>>, <<0, 0, 0>>, <<511, 383, 511>>,
     <<-1, 0, 0>>, <<0, 0, 512>>, <<0, 384, 0>>}

\* Region::getBlockAt on the returned Region.  operator[] checks nothing: an
\* index out of range is undefined behaviour, which kills the process or
\* reads whatever lies there.
GetBlockAt(x, y, z) ==
    /\ pc = "returned"
    /\ LET ix == BlockIndices(x, y, z)
       IN  \/ /\ IndicesInRange(ix)
              /\ query' = [kind |-> "value", x |-> x, y |-> y, z |-> z,
                           value |-> BlockAt(data, x, y, z)]
              /\ pc' = pc
           \/ /\ ~IndicesInRange(ix)
              /\ query' = [kind |-> "outside", x |-> x, y |-> y, z |-> z,
                           value |-> NoData]
              /\ pc' = "crashed"
           \/ /\ ~IndicesInRange(ix)
              /\ \E garbage \in {0, 1, NoData} :
                    query' = [kind |-> "outside", x |-> x, y |-> y, z |-> z,
                              value |-> garbage]
              /\ pc' = pc
    /\ UNCHANGED <<file, dispatchIdx, futures, collected, data, regionXWorld, regionZWorld,
                   writes, stray>>

----------------------------------------------------------------------------
(* ByteBuffer (include/byte_buffer.h).                                     *)
(*                                                                         *)
(* size_t is SizeBits wide here instead of 64: position_ + size is taken   *)
(* modulo 2^SizeBits, and a vector or string of more than MaxSize bytes    *)
(* (half the range, as PTRDIFF_MAX is of SIZE_MAX) cannot be constructed.  *)
(* A value of a fixed-width type is kept as its bytes, most significant    *)
(* first, so that no value needs more than a byte of range.                *)

SizeBits == 5
MaxBufLen == 8

SizeRange == Pow2(SizeBits)
MaxSize == Pow2(SizeBits - 1) - 1
\* a + b on size_t
SizeAdd(a, b) == (a + b) % SizeRange

\* The buffers tried: n bytes, all different.
ByteOf(i) == (i * 67 + 1) % 256
BufferOfLen(n) == [i \in 1..n |-> ByteOf(i)]

\* The sizes, lengths and positions the calls are tried with: around the
\* buffer's length, around MaxSize, and the largest values of size_t.
SizeArgs ==
    (0..(MaxBufLen + 1)) \cup {MaxSize, MaxSize + 1}
        \cup ((SizeRange - 3)..(SizeRange - 1))

\* T of read<T> and readVector<T>: sizeof(T) and std::is_integral_v<T>.
\* (1: int8_t, uint8_t; 2, 4, 8: the wider integers; float; double)
Types ==
    {[size |-> 1, integral |-> TRUE], [size |-> 2, integral |-> TRUE],
     [size |-> 4, integral |-> TRUE], [size |-> 8, integral |-> TRUE],
     [size |-> 4, integral |-> FALSE], [size |-> 8, integral |-> FALSE]}

RECURSIVE Reverse(_)
Reverse(q) == IF q = << >> THEN << >> ELSE Reverse(Tail(q)) \o <<Head(q)>>

\* A read<T> that swaps the bytes of no type.
HostValueUnswapped(T, bytes) == Reverse(bytes)

\* The value read<T> returns for the bytes memcpy copied, on a little-endian
\* host: memcpy makes the first byte the least significant one, and only
\* integral types wider than a byte are then byte-swapped.
HostValue(T, bytes) ==
    IF T.size > 1 /\ T.integral THEN bytes ELSE Reverse(bytes)

BBInit ==
    /\ \E n \in 0..MaxBufLen : bbData = BufferOfLen(n)
    /\ bbPos = 0
    /\ bbLast = [op |-> "none"]

\* The record of a call: `size` elements of `elem` bytes were asked for at
\* position `pre`; seek records the position asked for as `size`.
Called(op, size, elem, outcome, result) ==
    [op |-> op, size |-> size, elem |-> elem, pre |-> bbPos,
     outcome |-> outcome, result |-> result]

\* A seek that stores the position without comparing it with the size.
SeekUnchecked(position) ==
    /\ bbPos' = position
    /\ bbLast' = Called("seek", position, 1, "ok", << >>)
    /\ UNCHANGED bbData

\* seek(position)
Seek(position) ==
    /\ IF position > Len(bbData)
       THEN /\ bbPos' = bbPos
            /\ bbLast' = Called("seek", position, 1, "out_of_range", << >>)
       ELSE /\ bbPos' = position
            /\ bbLast' = Called("seek", position, 1, "ok", << >>)
    /\ UNCHANGED bbData

\* The outcome of read<T>() at position p: the new position and the value,
\* or the exception.
ReadT(T, p) ==
    IF SizeAdd(p, T.size) > Len(bbData)
    THEN [outcome |-> "out_of_range", pos |-> p, value |-> << >>]
    ELSE [outcome |-> "ok", pos |-> p + T.size,
          value |-> HostValue(T, SubSeq(bbData, p + 1, p + T.size))]

\* T read<T>()
Read(T) ==
    /\ LET r == ReadT(T, bbPos)
       IN  /\ bbPos' = r.pos
           /\ bbLast' = Called("read", 1, T.size, r.outcome, <<r.value>>)
    /\ UNCHANGED bbData

\* A read that returns the bytes and does not advance the position.
ReadBytesNoAdvance(op, size) ==
    /\ IF SizeAdd(bbPos, size) > Len(bbData)
       THEN bbLast' = Called(op, size, 1, "out_of_range", << >>)
       ELSE bbLast' = Called(op, size, 1, "ok",
                             SubSeq(bbData, bbPos + 1, bbPos + size))
    /\ UNCHANGED <<bbData, bbPos>>

\* read(size), readString(length) and readByteArray(length) share their
\* body: the bounds check, the construction of the result (which throws
\* length_error above max_size), the copy, the advance.
ReadBytes(op, size) ==
    /\ IF SizeAdd(bbPos, size) > Len(bbData)
       THEN /\ bbPos' = bbPos
            /\ bbLast' = Called(op, size, 1, "out_of_range", << >>)
       ELSE IF size > MaxSize
       THEN /\ bbPos' = bbPos
            /\ bbLast' = Called(op, size, 1, "length_error", << >>)
       ELSE /\ bbPos' = bbPos + size
            /\ bbLast' = Called(op, size, 1, "ok",
                                SubSeq(bbData, bbPos + 1, bbPos + size))
    /\ UNCHANGED bbData

ReadSize(size) == ReadBytes("read_n", size)
ReadString(length) == ReadBytes("readString", length)
ReadByteArray(length) == ReadBytes("readByteArray", length)

\* The loop of readVector<T>: i elements are still to be read at position p.
RECURSIVE ReadVectorLoop(_, _, _, _)
ReadVectorLoop(T, i, p, acc) ==
    IF i = 0 THEN [outcome |-> "ok", pos |-> p, value |-> acc]
    ELSE LET r == ReadT(T, p)
         IN  IF r.outcome # "ok" THEN [r EXCEPT !.value = acc]
             ELSE ReadVectorLoop(T, i - 1, r.pos, Append(acc, r.value))

\* readVector<T>(length): reserve(length) throws length_error above
\* max_size() = MaxSize / sizeof(T); then length calls of read<T>().
ReadVector(T, length) ==
    /\ IF length > MaxSize \div T.size
       THEN /\ bbPos' = bbPos
            /\ bbLast' = Called("readVector", length, T.size, "length_error", << >>)
       ELSE LET r == ReadVectorLoop(T, length, bbPos, << >>)
            IN  /\ bbPos' = r.pos
                /\ bbLast' = Called("readVector", length, T.size, r.outcome, r.value)
    /\ UNCHANGED bbData

\* No parseNBT call and no function call under way.
\* No Renderer exists.
RendIdle ==
    /\ stopThreads = FALSE
    /\ sectionQueue = 0
    /\ queueMutex = {}
    /\ waiting = {}
    /\ workerPc = << >>
    /\ mainPc = "none"
    /\ queued = 0
    /\ joined = 0

NbtIdle ==
    /\ nbtInput = [kind |-> "none"]
    /\ nbtStack = << >>
    /\ nbtNodes = << >>
    /\ nbtResult = [kind |-> "idle"]
FnIdle ==
    /\ fnCall = [op |-> "none"]
    /\ fnRet = [kind |-> "none"]

\* The region reader's variables while the ByteBuffer is exercised.
RegionIdle ==
    /\ file = [i \in SlotSet |-> "empty"]
    /\ pc = "idle"
    /\ dispatchIdx = 0
    /\ futures = << >>
    /\ collected = 0
    /\ data = << >>
    /\ regionXWorld = NoRegion
    /\ regionZWorld = NoRegion
    /\ writes = << >>
    /\ stray = FALSE
    /\ query = [kind |-> "none"]

InitBB == BBInit /\ RegionIdle /\ NbtIdle /\ FnIdle /\ RendIdle

NextBB ==
    \/ /\ \E position \in SizeArgs : Seek(position)
       /\ UNCHANGED <<regionVars, nbtVars, fnVars, rendVars>>
    \/ /\ \E T \in Types : Read(T)
       /\ UNCHANGED <<regionVars, nbtVars, fnVars, rendVars>>
    \/ /\ \E size \in SizeArgs : ReadSize(size)
       /\ UNCHANGED <<regionVars, nbtVars, fnVars, rendVars>>
    \/ /\ \E length \in SizeArgs : ReadString(length)
       /\ UNCHANGED <<regionVars, nbtVars, fnVars, rendVars>>
    \/ /\ \E length \in SizeArgs : ReadByteArray(length)
       /\ UNCHANGED <<regionVars, nbtVars, fnVars, rendVars>>
    \/ /\ \E T \in Types, length \in SizeArgs : ReadVector(T, length)
       /\ UNCHANGED <<regionVars, nbtVars, fnVars, rendVars>>

SpecBB == InitBB /\ [][NextBB]_vars

----------------------------------------------------------------------------
(* NBTParser (include/nbt_parser.h, src/nbt_parser.cpp).                   *)
(*                                                                         *)
(* parseNBT runs on the ByteBuffer <<bbData, bbPos>>, here with size_t at  *)
(* its full width: no buffer is long enough for position_ + size to wrap   *)
(* unless size is a negative int converted to size_t.  The recursion of    *)
(* parseTag is kept as the stack of its activations, nbtStack, one step    *)
(* per entry, loop iteration and return.  The tags constructed are the     *)
(* nodes of nbtNodes, each naming its parent; `live` is FALSE for a tag    *)
(* that a later sibling of the same name has replaced in compoundValue.    *)

MAX_NBT_DEPTH == 512

TagEnd == 0
TagByte == 1
TagShort == 2
TagInt == 3
TagLong == 4
TagFloat == 5
TagDouble == 6
TagByteArray == 7
TagString == 8
TagList == 9
TagCompound == 10
TagIntArray == 11
TagLongArray == 12

\* The bytes at position p .. p + n - 1.
Bytes(p, n) == SubSeq(bbData, p + 1, p + n)

\* The integer a big-endian byte sequence encodes.
UInt16Of(b) == b[1] * 256 + b[2]
Int16Of(b) == IF b[1] >= 128 THEN UInt16Of(b) - 65536 ELSE UInt16Of(b)
Int32Of(b) ==
    (IF b[1] >= 128 THEN b[1] - 256 ELSE b[1]) * 16777216
        + b[2] * 65536 + b[3] * 256 + b[4]

\* The type read<T>() is instantiated with for each fixed-width tag.
FixedType(type) ==
    CASE type = TagByte   -> [size |-> 1, integral |-> TRUE]
      [] type = TagShort  -> [size |-> 2, integral |-> TRUE]
      [] type = TagInt    -> [size |-> 4, integral |-> TRUE]
      [] type = TagLong   -> [size |-> 8, integral |-> TRUE]
      [] type = TagFloat  -> [size |-> 4, integral |-> FALSE]
      [] type = TagDouble -> [size |-> 8, integral |-> FALSE]
FixedTags == {TagByte, TagShort, TagInt, TagLong, TagFloat, TagDouble}

\* An exception thrown with the buffer at position p.
Thrown(what, p) == [kind |-> "error", what |-> what, pos |-> p]

\* readString(n) and readByteArray(n) for an n that was a signed integer:
\* a negative n is converted to the size_t 2^64 + n, for which
\* position_ + n wraps to p + n when that is not negative; the check then
\* passes and the constructor of the result throws length_error.
SizedRead(p, n) ==
    IF n >= 0
    THEN IF p + n > Len(bbData) THEN Thrown("out_of_range", p)
         ELSE [kind |-> "ok", pos |-> p + n, value |-> Bytes(p, n)]
    ELSE IF p + n >= 0 THEN Thrown("length_error", p)
         ELSE Thrown("out_of_range", p)

\* The name of a named tag: two read<uint8_t>(), then readString.
ReadName(p) ==
    IF p + 2 > Len(bbData) THEN Thrown("out_of_range", Min(p + 1, Len(bbData)))
    ELSE LET nameLength == UInt16Of(Bytes(p, 2))
         IN  IF nameLength = 0
             THEN [kind |-> "ok", pos |-> p + 2, value |-> << >>]
             ELSE SizedRead(p + 2, nameLength)

\* What the switch leaves for the loops of TagList and TagCompound.
Payload(p, value, phase, left, etype) ==
    [kind |-> "ok", pos |-> p, value |-> value, phase |-> phase,
     left |-> left, etype |-> etype]

\* resize(n) and the loop of n reads of `size` bytes of an array tag.  An n
\* that needs more bytes than remain ends in out_of_range from read<T>()
\* (or in bad_alloc from resize, when the allocation itself fails).
ReadArray(p, n, T) ==
    IF n < 0 THEN Thrown("length_error", p)
    ELSE IF n > (Len(bbData) - p) \div T.size
         THEN Thrown("out_of_range", p + T.size * ((Len(bbData) - p) \div T.size))
    ELSE Payload(p + n * T.size,
                 [k \in 1..n |-> HostValue(T, Bytes(p + (k - 1) * T.size, T.size))],
                 "return", 0, TagEnd)

\* The switch of parseTag up to the first recursive call.
ReadValue(type, p) ==
    CASE type \in FixedTags ->
            LET T == FixedType(type)
            IN  IF p + T.size > Len(bbData) THEN Thrown("out_of_range", p)
                ELSE Payload(p + T.size, HostValue(T, Bytes(p, T.size)),
                             "return", 0, TagEnd)
      [] type = TagByteArray ->
            IF p + 4 > Len(bbData) THEN Thrown("out_of_range", p)
            ELSE LET r == SizedRead(p + 4, Int32Of(Bytes(p, 4)))
                 IN  IF r.kind = "error" THEN r
                     ELSE Payload(r.pos, r.value, "return", 0, TagEnd)
      [] type = TagString ->
            IF p + 2 > Len(bbData) THEN Thrown("out_of_range", p)
            ELSE LET r == SizedRead(p + 2, Int16Of(Bytes(p, 2)))
                 IN  IF r.kind = "error" THEN r
                     ELSE Payload(r.pos, r.value, "return", 0, TagEnd)
      [] type = TagList ->
            IF p + 1 > Len(bbData) THEN Thrown("out_of_range", p)
            ELSE IF p + 5 > Len(bbData) THEN Thrown("out_of_range", p + 1)
            ELSE Payload(p + 5, << >>, "list", Int32Of(Bytes(p + 1, 4)),
                         ToInt8(bbData[p + 1]))
      [] type = TagCompound -> Payload(p, << >>, "compound", 0, TagEnd)
      [] type = TagIntArray ->
            IF p + 4 > Len(bbData) THEN Thrown("out_of_range", p)
            ELSE ReadArray(p + 4, Int32Of(Bytes(p, 4)),
                           [size |-> 4, integral |-> TRUE])
      [] type = TagLongArray ->
            \* uint32_t: a length of 2^31 or more needs more bytes than any
            \* buffer holds
            IF p + 4 > Len(bbData) THEN Thrown("out_of_range", p)
            ELSE IF bbData[p + 1] >= 128 THEN Thrown("out_of_range", p + 4)
            ELSE ReadArray(p + 4, Int32Of(Bytes(p, 4)),
                           [size |-> 8, integral |-> TRUE])
      [] OTHER -> Payload(p, << >>, "return", 0, TagEnd)

\* An activation parseTag(buffer, type, named, currentDepth), called for the
\* tag `parent`; node is 0 until `NBTTag tag` exists.
Frame(type, named, currentDepth, parent) ==
    [type |-> type, named |-> named, depth |-> currentDepth, parent |-> parent,
     node |-> 0, phase |-> "enter", left |-> 0, etype |-> TagEnd]

Top == nbtStack[Len(nbtStack)]
Push(frame) == Append(nbtStack, frame)
ReplaceTop(frame) == [nbtStack EXCEPT ![Len(nbtStack)] = frame]

\* An exception leaves parseNBT: every activation and every tag is destroyed.
NbtThrow(what, p) ==
    /\ bbPos' = p
    /\ nbtStack' = << >>
    /\ nbtNodes' = << >>
    /\ nbtResult' = [kind |-> "error", what |-> what]

\* A guard that lets any depth through.
DepthUnlimited(currentDepth) == FALSE
\* if (currentDepth > MAX_NBT_DEPTH)
DepthExceeded(currentDepth) == currentDepth > MAX_NBT_DEPTH

\* A root check that lets any type through.
AnyRootType(rootType) == TRUE
\* rootType == TagType::TagCompound
IsRootType(rootType) == rootType = TagCompound

\* parseNBT up to its call of parseTag(buffer, rootType).
ParseNBT ==
    /\ nbtResult.kind = "called"
    /\ IF bbPos + 1 > Len(bbData)
       THEN NbtThrow("out_of_range", bbPos)
       ELSE IF ~IsRootType(bbData[bbPos + 1])
       THEN NbtThrow("invalid_root", bbPos + 1)
       ELSE /\ bbPos' = bbPos + 1
            /\ nbtStack' = <<Frame(bbData[bbPos + 1], TRUE, 0, 0)>>
            /\ nbtResult' = [kind |-> "running"]
            /\ UNCHANGED nbtNodes
    /\ UNCHANGED <<bbData, bbLast, nbtInput>>

\* parseTag from its entry to the first recursive call or its return
\* statement: the depth guard, the name, the switch.
EnterTag ==
    /\ nbtResult.kind = "running"
    /\ Top.phase = "enter"
    /\ IF DepthExceeded(Top.depth)
       THEN NbtThrow("depth_exceeded", bbPos)
       ELSE LET name == IF Top.named THEN ReadName(bbPos)
                        ELSE [kind |-> "ok", pos |-> bbPos, value |-> << >>]
            IN  IF name.kind = "error" THEN NbtThrow(name.what, name.pos)
                ELSE LET v == ReadValue(Top.type, name.pos)
                     IN  IF v.kind = "error" THEN NbtThrow(v.what, v.pos)
                         ELSE /\ bbPos' = v.pos
                              /\ nbtNodes' = Append(nbtNodes,
                                    [parent |-> Top.parent, depth |-> Top.depth,
                                     type |-> Top.type, name |-> name.value,
                                     value |-> v.value, live |-> TRUE])
                              /\ nbtStack' = ReplaceTop(
                                    [Top EXCEPT !.node = Len(nbtNodes) + 1,
                                                !.phase = v.phase,
                                                !.left = v.left,
                                                !.etype = v.etype])
                              /\ UNCHANGED nbtResult
    /\ UNCHANGED <<bbData, bbLast, nbtInput>>

\* A list loop that does not count its iterations.
AfterElementSame(left) == left
\* ++i: `left` is listLength - i, the iterations the loop has yet to run.
AfterElement(left) == left - 1

\* One test of the TagList loop: i < listLength calls parseTag for the next
\* element, otherwise the loop ends.
ListStep ==
    /\ nbtResult.kind = "running"
    /\ Top.phase = "list"
    /\ IF Top.left > 0
       THEN nbtStack' = Append(ReplaceTop([Top EXCEPT !.left = AfterElement(Top.left)]),
                               Frame(Top.etype, FALSE, Top.depth + 1, Top.node))
       ELSE nbtStack' = ReplaceTop([Top EXCEPT !.phase = "return"])
    /\ UNCHANGED <<bbData, bbPos, bbLast, nbtInput, nbtNodes, nbtResult>>

\* One iteration of the TagCompound loop up to its break or its call of
\* parseTag.
CompoundStep ==
    /\ nbtResult.kind = "running"
    /\ Top.phase = "compound"
    /\ IF bbPos + 1 > Len(bbData)
       THEN NbtThrow("out_of_range", bbPos)
       ELSE /\ bbPos' = bbPos + 1
            /\ IF bbData[bbPos + 1] = TagEnd
               THEN nbtStack' = ReplaceTop([Top EXCEPT !.phase = "return"])
               ELSE nbtStack' = Append(nbtStack,
                                   Frame(bbData[bbPos + 1], TRUE, Top.depth + 1, Top.node))
            /\ UNCHANGED <<nbtNodes, nbtResult>>
    /\ UNCHANGED <<bbData, bbLast, nbtInput>>

\* return tag: the caller stores the tag, listValue.push_back(tag) or
\* compoundValue[tag.name] = tag, which replaces an earlier child of that
\* name; the outermost return is that of parseNBT.
ReturnTag ==
    /\ nbtResult.kind = "running"
    /\ Top.phase = "return"
    /\ nbtStack' = SubSeq(nbtStack, 1, Len(nbtStack) - 1)
    /\ LET me == Top.node
           parent == Top.parent
       IN  IF parent # 0 /\ nbtNodes[parent].type = TagCompound
           THEN nbtNodes' =
                   [k \in 1..Len(nbtNodes) |->
                       IF /\ k # me
                          /\ nbtNodes[k].parent = parent
                          /\ nbtNodes[k].name = nbtNodes[me].name
                       THEN [nbtNodes[k] EXCEPT !.live = FALSE]
                       ELSE nbtNodes[k]]
           ELSE UNCHANGED nbtNodes
    /\ nbtResult' = IF Len(nbtStack) = 1 THEN [kind |-> "ok"] ELSE nbtResult
    /\ UNCHANGED <<bbData, bbPos, bbLast, nbtInput>>

(* The buffers parseNBT is called on, each with what it was encoded from.  *)

\* The encoders of the NBT binary format.
UInt16Bytes(n) == <<n \div 256, n % 256>>
Int32Bytes(v) ==
    <<(v \div 16777216) % 256, (v \div 65536) % 256, (v \div 256) % 256, v % 256>>
EncodeInt(child) ==
    <<TagInt>> \o UInt16Bytes(Len(child.name)) \o child.name \o Int32Bytes(child.value)
RECURSIVE EncodeChildren(_)
EncodeChildren(children) ==
    IF children = << >> THEN << >>
    ELSE EncodeInt(Head(children)) \o EncodeChildren(Tail(children))
\* A root compound with the empty name that holds the children.
EncodeInts(children) ==
    <<TagCompound, 0, 0>> \o EncodeChildren(children) \o <<TagEnd>>

\* Compounds with empty names nested in one another: the root at depth 0,
\* the innermost at depth `depth`.  cut: the bytes end with the type byte of
\* the innermost compound.
EncodeCompounds(depth, cut) ==
    [i \in 1..(IF cut THEN 3 * depth + 1 ELSE 4 * (depth + 1)) |->
        IF i <= 3 * (depth + 1) /\ i % 3 = 1 THEN TagCompound ELSE 0]

\* A root compound holding a list of one list of one list ...: the lists are
\* at depths 1 .. depth, the innermost is empty.  cut: the bytes end with
\* the header of the list at depth - 1.
EncodeLists(depth, cut) ==
    [i \in 1..(IF cut THEN 6 + 5 * (depth - 1) ELSE 12 + 5 * (depth - 1)) |->
        IF i <= 6 THEN <<TagCompound, 0, 0, TagList, 0, 0>>[i]
        ELSE IF i <= 6 + 5 * (depth - 1)
        THEN (IF (i - 7) % 5 = 0 THEN TagList
              ELSE IF (i - 7) % 5 = 4 THEN 1 ELSE 0)
        ELSE 0]

\* A root compound with the empty name that holds one String tag named
\* "s" whose length field is `length` and whose value is that many bytes.
EncodeString(length) ==
    LET head == <<TagCompound, 0, 0, TagString, 0, 1, 115>> \o UInt16Bytes(length)
    IN  [i \in 1..(Len(head) + length + 1) |->
            IF i <= Len(head) THEN head[i]
            ELSE IF i <= Len(head) + length THEN 104
            ELSE TagEnd]
\* The lengths around the largest int16_t and the largest uint16_t.
StringLengths == {0, 2, Pow2(15) - 1, Pow2(15), Pow2(16) - 1}

Int32Min == -2147483647 - 1
ChildNames == {<<120>>, <<121>>, <<120, 121>>, << >>}
ChildValues == {42, -1, 256, Int32Min}
Children == [name : ChildNames, value : ChildValues]
ChildLists == {<< >>} \cup {<<c>> : c \in Children}
                  \cup {<<c, d>> : c, d \in Children}

\* Buffers that are not produced by the encoders above.
RawBuffers ==
    { << >>, <<TagEnd>>, <<TagCompound>>, <<TagCompound, 0>>,
      <<TagCompound, 0, 0>>, <<TagCompound, 0, 1>>,
      <<TagCompound, 0, 1, 114, TagEnd>>,
      <<TagList, 0, 0, TagEnd, 0, 0, 0, 0>>,
      <<TagInt, 0, 1, 120, 0, 0, 0, 42>>,
      <<TagLongArray, 0, 0, 0, 0, 0, 0>>, <<255, 0, 0, TagEnd>>,
      <<TagCompound, 0, 0, TagString, 0, 1, 115, 0, 2, 104, 105, TagEnd>>,
      <<TagCompound, 0, 0, TagString, 0, 1, 115, 255, 255, 104, 105, TagEnd>>,
      <<TagCompound, 0, 0, TagByteArray, 0, 0, 0, 0, 0, 2, 7, 8, TagEnd>>,
      <<TagCompound, 0, 0, TagByteArray, 0, 0, 255, 255, 255, 255, TagEnd>>,
      <<TagCompound, 0, 0, TagIntArray, 0, 0, 0, 0, 0, 1, 0, 0, 1, 0, TagEnd>>,
      <<TagCompound, 0, 0, TagIntArray, 0, 0, 0, 0, 0, 9, 0, 0, 1, 0, TagEnd>>,
      <<TagCompound, 0, 0, TagLongArray, 0, 0, 0, 0, 0, 1,
        0, 0, 0, 0, 0, 0, 16, 1, TagEnd>>,
      <<TagCompound, 0, 0, TagFloat, 0, 0, 66, 40, 0, 0,
        TagDouble, 0, 1, 100, 64, 69, 0, 0, 0, 0, 0, 0,
        TagLong, 0, 1, 108, 0, 0, 0, 0, 0, 0, 1, 2,
        TagShort, 0, 1, 104, 255, 254, TagByte, 0, 1, 98, 128, TagEnd>>,
      <<TagCompound, 0, 0, TagList, 0, 1, 108, TagInt, 0, 0, 0, 2,
        0, 0, 0, 7, 0, 0, 0, 8, TagEnd>>,
      <<TagCompound, 0, 0, TagList, 0, 1, 108, TagInt, 255, 255, 255, 255, TagEnd>>,
      <<TagCompound, 0, 0, 13, 0, 1, 120, TagEnd>>,
      <<TagCompound, 0, 0, TagList, 0, 1, 108, 13, 0, 0, 0, 2, TagEnd>>,
      <<TagCompound, 0, 0, TagList, 0, 1, 108, 200, 0, 0, 0, 1, TagEnd>>,
      <<TagCompound, 0, 0, TagList, 0, 1, 108, TagEnd, 0, 0, 0, 3, TagEnd>> }

ChainDepths == {1, 2, MAX_NBT_DEPTH, MAX_NBT_DEPTH + 1, MAX_NBT_DEPTH + 2}

NbtInputs ==
    {[kind |-> "ints", children |-> c, depth |-> 1, cut |-> FALSE, raw |-> << >>] :
        c \in ChildLists}
    \cup {[kind |-> k, children |-> << >>, depth |-> d, cut |-> c, raw |-> << >>] :
            k \in {"compounds", "lists"}, d \in ChainDepths, c \in BOOLEAN}
    \cup {[kind |-> "raw", children |-> << >>, depth |-> 0, cut |-> FALSE, raw |-> b] :
            b \in RawBuffers}
    \* depth: the length of the string
    \cup {[kind |-> "string", children |-> << >>, depth |-> n, cut |-> FALSE,
           raw |-> << >>] : n \in StringLengths}

BufferOf(input) ==
    CASE input.kind = "ints" -> EncodeInts(input.children)
      [] input.kind = "compounds" -> EncodeCompounds(input.depth, input.cut)
      [] input.kind = "lists" -> EncodeLists(input.depth, input.cut)
      [] input.kind = "raw" -> input.raw
      [] input.kind = "string" -> EncodeString(input.depth)

InitNBT ==
    /\ nbtInput \in NbtInputs
    /\ bbData = BufferOf(nbtInput)
    /\ bbPos = 0
    /\ bbLast = [op |-> "none"]
    /\ nbtStack = << >>
    /\ nbtNodes = << >>
    /\ nbtResult = [kind |-> "called"]
    /\ RegionIdle
    /\ FnIdle
    /\ RendIdle

NextNBT ==
    \/ /\ ParseNBT
       /\ UNCHANGED <<regionVars, fnVars, rendVars>>
    \/ /\ EnterTag
       /\ UNCHANGED <<regionVars, fnVars, rendVars>>
    \/ /\ ListStep
       /\ UNCHANGED <<regionVars, fnVars, rendVars>>
    \/ /\ CompoundStep
       /\ UNCHANGED <<regionVars, fnVars, rendVars>>
    \/ /\ ReturnTag
       /\ UNCHANGED <<regionVars, fnVars, rendVars>>

SpecNBT == InitNBT /\ [][NextNBT]_vars

\* parseNBT runs on the thread that called it, which executes its next step
\* as long as there is one.
SpecNBTFair == SpecNBT /\ WF_vars(NextNBT)

----------------------------------------------------------------------------
(* ByteBuffer: placeholder state while the region reader runs *)

BBIdle ==
    /\ bbData = << >>
    /\ bbPos = 0
    /\ bbLast = [op |-> "none"]

----------------------------------------------------------------------------
(* processSection and the bit length expression, called on their own. *)

\* Words of section data: 0x21; all ones; bits 16 and 63 set.
Word21 == WordOfNibbles(<<1, 2>>)
WordOnes == [b \in 1..LongBits |-> 1]
WordHigh == [b \in 1..LongBits |-> IF b = 17 \/ b = LongBits THEN 1 ELSE 0]

\* The data arrays tried: short ones, and arrays around the 256 words that
\* fill a section at 4 bits per index.
SectionDatas ==
    { << >>, <<Word21>>, <<WordOnes>>, <<WordHigh, Word21>> }
        \cup {[k \in 1..n |-> IF k % 2 = 0 THEN Word21 ELSE WordOnes] :
                n \in {TOTAL_SECTION_BLOCKS \div 16, TOTAL_SECTION_BLOCKS \div 16 + 1}}
BitLengths == (-1)..(LongBits + 2)
PaletteSizes == 0..(TOTAL_SECTION_BLOCKS + 1)

FnCalls ==
    {[op |-> "processSection", data |-> d, bitLength |-> w, paletteSize |-> 0] :
        d \in SectionDatas, w \in BitLengths}
    \cup {[op |-> "bitLength", data |-> << >>, bitLength |-> 0, paletteSize |-> n] :
            n \in PaletteSizes}

CallProcessSection ==
    /\ fnCall.op = "processSection"
    /\ fnRet.kind = "none"
    /\ \E maskBits \in MaskBits(fnCall.bitLength) :
          fnRet' = ProcessSectionMasked(fnCall.data, fnCall.bitLength, maskBits)
    /\ UNCHANGED fnCall

CallBitLength ==
    /\ fnCall.op = "bitLength"
    /\ fnRet.kind = "none"
    /\ fnRet' = [kind |-> "ok", result |-> BitLength(fnCall.paletteSize)]
    /\ UNCHANGED fnCall

InitFn ==
    /\ fnCall \in FnCalls
    /\ fnRet = [kind |-> "none"]
    /\ RendIdle
    /\ RegionIdle
    /\ BBIdle
    /\ NbtIdle

NextFn ==
    \/ /\ CallProcessSection
       /\ UNCHANGED <<regionVars, bbVars, nbtVars, rendVars>>
    \/ /\ CallBitLength
       /\ UNCHANGED <<regionVars, bbVars, nbtVars, rendVars>>

SpecFn == InitFn /\ [][NextFn]_vars

Init == RegionInit /\ BBIdle /\ NbtIdle /\ FnIdle /\ RendIdle

Next ==
    \/ /\ ReadFile
       /\ UNCHANGED <<bbVars, nbtVars, fnVars, rendVars>>
    \/ /\ Dispatch
       /\ UNCHANGED <<bbVars, nbtVars, fnVars, rendVars>>
    \/ /\ \E k \in 1..Len(futures) : TaskRun(k)
       /\ UNCHANGED <<bbVars, nbtVars, fnVars, rendVars>>
    \/ /\ Collect
       /\ UNCHANGED <<bbVars, nbtVars, fnVars, rendVars>>
    \/ /\ Return
       /\ UNCHANGED <<bbVars, nbtVars, fnVars, rendVars>>
    \/ /\ \E p \in QueryPoints : GetBlockAt(p[1], p[2], p[3])
       /\ UNCHANGED <<bbVars, nbtVars, fnVars, rendVars>>

Spec == Init /\ [][Next]_vars

----------------------------------------------------------------------------
(* Renderer: the worker threads and the destructor                         *)
(* (src/renderer/renderer.cpp).                                            *)
(*                                                                         *)
(* The thread that owns the Renderer queues sections and then destroys it. *)
(* Each step below is one access to stopThreads (an atomic), one critical  *)
(* section of queueMutex, or one call on the condition variable.           *)
(* condition.wait(lock, pred) is while (!pred()) wait(lock): the predicate *)
(* is evaluated with the mutex held, and wait(lock) releases the mutex and *)
(* blocks in one step; a notification reaches the threads blocked at that  *)
(* moment and no others.                                                   *)

\* nThreads, and the number of sections queued before the destructor runs.
NWorkers == 2
MaxQueued == 2
Workers == 1..NWorkers

\* The constructor has started the threads.
RendInit ==
    /\ stopThreads = FALSE
    /\ sectionQueue = 0
    /\ queueMutex = {}
    /\ waiting = {}
    /\ workerPc = [w \in Workers |-> "loop"]
    /\ mainPc = "render"
    /\ queued = 0
    /\ joined = 0

\* queueSectionForProcessing, lines 900-903: push under the mutex.
QueuePush ==
    /\ mainPc = "render"
    /\ queued < MaxQueued
    /\ queueMutex = {}
    /\ sectionQueue' = sectionQueue + 1
    /\ queued' = queued + 1
    /\ mainPc' = "notify_one"
    /\ UNCHANGED <<stopThreads, queueMutex, waiting, workerPc, joined>>

\* Line 906: condition.notify_one() wakes one blocked worker, if any.
QueueNotifyOne ==
    /\ mainPc = "notify_one"
    /\ mainPc' = "render"
    /\ IF waiting = {} THEN UNCHANGED <<waiting, workerPc>>
       ELSE \E w \in waiting :
               /\ waiting' = waiting \ {w}
               /\ workerPc' = [workerPc EXCEPT ![w] = "woken"]
    /\ UNCHANGED <<stopThreads, sectionQueue, queueMutex, queued, joined>>

\* ~Renderer, line 73: stopThreads = true, without queueMutex.
DestructorStop ==
    /\ mainPc = "render"
    /\ stopThreads' = TRUE
    /\ mainPc' = "notify_all"
    /\ UNCHANGED <<sectionQueue, queueMutex, waiting, workerPc, queued, joined>>

\* ~Renderer, line 74: condition.notify_all() wakes the workers that are
\* blocked now.
DestructorNotifyAll ==
    /\ mainPc = "notify_all"
    /\ waiting' = {}
    /\ workerPc' = [w \in Workers |-> IF w \in waiting THEN "woken" ELSE workerPc[w]]
    /\ mainPc' = "join"
    /\ UNCHANGED <<stopThreads, sectionQueue, queueMutex, queued, joined>>

\* ~Renderer, lines 77-83: thread.join() returns when the thread has left
\* workerFunction; the threads are joined in the order of the vector.
Join ==
    /\ mainPc = "join"
    /\ workerPc[joined + 1] = "exited"
    /\ joined' = joined + 1
    /\ mainPc' = IF joined + 1 = NWorkers THEN "destroyed" ELSE "join"
    /\ UNCHANGED <<stopThreads, sectionQueue, queueMutex, waiting, workerPc, queued>>

\* workerFunction, line 857: while (!stopThreads)
LoopTest(w) ==
    /\ workerPc[w] = "loop"
    /\ workerPc' = [workerPc EXCEPT ![w] = IF stopThreads THEN "exited" ELSE "lock"]
    /\ UNCHANGED <<stopThreads, sectionQueue, queueMutex, waiting, mainPc, queued, joined>>

\* Lines 862-863: the mutex is acquired, on entry or after a wake-up, and
\* the predicate !sectionQueue.empty() || stopThreads is evaluated.
EvaluatePredicate(w) ==
    /\ workerPc[w] \in {"lock", "woken"}
    /\ queueMutex = {}
    /\ queueMutex' = {w}
    /\ workerPc' = [workerPc EXCEPT ![w] =
                        IF sectionQueue > 0 \/ stopThreads THEN "check" ELSE "block"]
    /\ UNCHANGED <<stopThreads, sectionQueue, waiting, mainPc, queued, joined>>

\* Line 863: the predicate was false; wait(lock) releases the mutex and
\* blocks.
Block(w) ==
    /\ workerPc[w] = "block"
    /\ queueMutex' = {}
    /\ waiting' = waiting \cup {w}
    /\ workerPc' = [workerPc EXCEPT ![w] = "waiting"]
    /\ UNCHANGED <<stopThreads, sectionQueue, mainPc, queued, joined>>

\* A wait may return without a notification; nothing makes it do so.
SpuriousWake(w) ==
    /\ w \in waiting
    /\ waiting' = waiting \ {w}
    /\ workerPc' = [workerPc EXCEPT ![w] = "woken"]
    /\ UNCHANGED <<stopThreads, sectionQueue, queueMutex, mainPc, queued, joined>>

\* Lines 864-870: if (stopThreads) return; otherwise the front of the queue
\* is popped; the lock is released either way.
TakeTask(w) ==
    /\ workerPc[w] = "check"
    /\ queueMutex' = {}
    /\ IF stopThreads
       THEN /\ workerPc' = [workerPc EXCEPT ![w] = "exited"]
            /\ UNCHANGED sectionQueue
       ELSE /\ workerPc' = [workerPc EXCEPT ![w] = "process"]
            /\ sectionQueue' = sectionQueue - 1
    /\ UNCHANGED <<stopThreads, waiting, mainPc, queued, joined>>

\* Lines 873-883: processSection, then notify_all under the mutex.
NotifyReady(w) ==
    /\ workerPc[w] = "process"
    /\ queueMutex = {}
    /\ waiting' = {}
    /\ workerPc' = [v \in Workers |-> IF v = w THEN "loop"
                                      ELSE IF v \in waiting THEN "woken"
                                      ELSE workerPc[v]]
    /\ UNCHANGED <<stopThreads, sectionQueue, queueMutex, mainPc, queued, joined>>

\* The steps of the owning thread, and those a worker takes by itself.
MainStep == QueuePush \/ QueueNotifyOne \/ DestructorStop \/ DestructorNotifyAll \/ Join
WorkerStep(w) ==
    LoopTest(w) \/ EvaluatePredicate(w) \/ Block(w) \/ TakeTask(w) \/ NotifyReady(w)

InitRenderer == RendInit /\ RegionIdle /\ BBIdle /\ NbtIdle /\ FnIdle

NextRenderer ==
    \/ /\ QueuePush
       /\ UNCHANGED <<regionVars, bbVars, nbtVars, fnVars>>
    \/ /\ QueueNotifyOne
       /\ UNCHANGED <<regionVars, bbVars, nbtVars, fnVars>>
    \/ /\ DestructorStop
       /\ UNCHANGED <<regionVars, bbVars, nbtVars, fnVars>>
    \/ /\ DestructorNotifyAll
       /\ UNCHANGED <<regionVars, bbVars, nbtVars, fnVars>>
    \/ /\ Join
       /\ UNCHANGED <<regionVars, bbVars, nbtVars, fnVars>>
    \/ /\ \E w \in Workers : LoopTest(w)
       /\ UNCHANGED <<regionVars, bbVars, nbtVars, fnVars>>
    \/ /\ \E w \in Workers : EvaluatePredicate(w)
       /\ UNCHANGED <<regionVars, bbVars, nbtVars, fnVars>>
    \/ /\ \E w \in Workers : Block(w)
       /\ UNCHANGED <<regionVars, bbVars, nbtVars, fnVars>>
    \/ /\ \E w \in Workers : SpuriousWake(w)
       /\ UNCHANGED <<regionVars, bbVars, nbtVars, fnVars>>
    \/ /\ \E w \in Workers : TakeTask(w)
       /\ UNCHANGED <<regionVars, bbVars, nbtVars, fnVars>>
    \/ /\ \E w \in Workers : NotifyReady(w)
       /\ UNCHANGED <<regionVars, bbVars, nbtVars, fnVars>>

\* Every thread that can take a step is scheduled, and a thread that asks
\* for the mutex again and again gets it; a wait is not bound to return
\* without a notification.
SpecRenderer ==
    /\ InitRenderer
    /\ [][NextRenderer]_vars
    /\ WF_rendVars(MainStep)
    /\ \A w \in Workers : SF_rendVars(WorkerStep(w))

----------------------------------------------------------------------------
(* Properties of getRegion and Region. *)

AllSlots == 0..(N_CHUNKS_PER_REGION_XZ * N_CHUNKS_PER_REGION_XZ - 1)
OccupiedSlots(f) == {i \in SlotSet : ~IsZeroWord(LocationWord(TableBytes(f, i)))}

\* The column of the grid that belongs to location-table slot i.
SlotX(i) == i % N_CHUNKS_PER_REGION_XZ
SlotZ(i) == i \div N_CHUNKS_PER_REGION_XZ

\* Every cell of chunk slot <<cx, cz>> holds 0xFFFF.
ColumnIsDefault(d, cx, cz) ==
    \/ <<cx, cz>> \notin DOMAIN d
    \/ \A s \in DOMAIN d[<<cx, cz>>] : d[<<cx, cz>>][s] = EmptySection

\* The sections list of the chunk stored for slot i.
SectionsOfSlot(f, i) ==
    IF f[i] \in ChunkKinds THEN PayloadOf(f[i], i).root.sections ELSE << >>
SlotOfSection(sectionEntry) == ToInt8(sectionEntry.Y) - CDiv(MIN_Y, SECTION_SIZE)
PaletteOfSection(sectionEntry) == PaletteNames(sectionEntry.palette.entries).palette

\* The palette index the section selects for flat index i: the i-th index
\* unpacked from block_states.data, or 0 when there is no data array.
SelectedIndex(sectionEntry, i) ==
    IF sectionEntry.data.isLongArray
    THEN ProcessSection(sectionEntry.data.longs,
                        BitLength(Len(PaletteOfSection(sectionEntry)))).result[i + 1]
    ELSE 0

\* The dictionary id of the palette entry selected for flat index i.
SelectedId(sectionEntry, i) ==
    BlockIdDict[PaletteOfSection(sectionEntry)[SelectedIndex(sectionEntry, i) + 1]]

\* A section all of whose palette names are in the dictionary.
Resolvable(sectionEntry) ==
    /\ sectionEntry.palette.isList
    /\ PaletteNames(sectionEntry.palette.entries).kind = "ok"
    /\ PaletteOfSection(sectionEntry) # << >>
    /\ \A n \in 1..Len(PaletteOfSection(sectionEntry)) :
          PaletteOfSection(sectionEntry)[n] \in DOMAIN BlockIdDict
    /\ SlotOfSection(sectionEntry) \in 0..(N_SECTIONS_PER_CHUNK_Y - 1)

FlatIndices == 0..(TOTAL_SECTION_BLOCKS - 1)
\* x = i % 16, z = (i / 16) % 16, y = i / 256
FlatX(i) == i % SECTION_SIZE
FlatZ(i) == (i \div SECTION_SIZE) % SECTION_SIZE
FlatY(i) == i \div (SECTION_SIZE * SECTION_SIZE)

\* C1: for a chunk decoded into region slot (cx, cz) and section slot s, and
\* every flat index i with x = i % 16, z = (i / 16) % 16, y = i / 256,
\* getBlockAt(16 cx + x, 16 s + y, 16 cz + z) on the returned Region is the
\* dictionary id of the palette entry selected for index i.
C1Claim ==
    pc = "returned" =>
        \A k \in 1..Len(futures) :
            LET r == ChunkTask(file, futures[k].chunkIdx)
                secs == SectionsOfSlot(file, futures[k].chunkIdx)
            IN  (r.kind = "ok" /\ InGrid(r.chunkXInRegion, r.chunkZInRegion)
                    /\ <<r.chunkXInRegion, r.chunkZInRegion>> \in DOMAIN data) =>
                \A n \in 1..Len(secs) :
                    Resolvable(secs[n]) =>
                    \A i \in FlatIndices :
                        BlockAt(data,
                                SECTION_SIZE * r.chunkXInRegion + FlatX(i),
                                SECTION_SIZE * SlotOfSection(secs[n]) + FlatY(i),
                                SECTION_SIZE * r.chunkZInRegion + FlatZ(i))
                        = SelectedId(secs[n], i)

\* C2: in the chunk a task returns, a section whose block_states.data is a
\* LongArray has the cell of each flat index i resolved from palette[k_i],
\* k_i the i-th unpacked index; a section without data has every cell
\* resolved from palette[0].
C2Claim ==
    \A k \in 1..Len(futures) :
        LET r == futures[k].result
            secs == SectionsOfSlot(file, futures[k].chunkIdx)
        IN  (futures[k].state = "ready" /\ r.kind = "ok") =>
            \A n \in 1..Len(secs) :
                Resolvable(secs[n]) =>
                \A i \in FlatIndices :
                    SectionOf(r.chunkBlocks, SlotOfSection(secs[n]))
                        [FlatY(i)][FlatZ(i)][FlatX(i)]
                    = SelectedId(secs[n], i)

\* C3: after the dispatch loop there is exactly one task for every slot of
\* the location table whose word is not zero, and none for a zero word.
C3Claim ==
    pc \in {"collect", "returned"} =>
        \A i \in AllSlots :
            Cardinality({k \in 1..Len(futures) : futures[k].chunkIdx = i})
            = IF IsZeroWord(Locations(file)[i]) THEN 0 ELSE 1


\* What decoding the chunk of an occupied slot gives.
Failed(f, i) == ChunkTask(f, i).kind = "error"
Decoded(f, i) ==
    LET r == ChunkTask(f, i)
    IN  r.kind = "ok" /\ ~r.ub /\ InGrid(r.chunkXInRegion, r.chunkZInRegion)
\* The grid slot readAndProcessChunk computes for the chunk of slot i.
GridSlot(f, i) ==
    LET r == ChunkTask(f, i) IN <<r.chunkXInRegion, r.chunkZInRegion>>
\* No other decoded chunk of the file is placed in grid slot g.
OnlyAt(f, i, g) ==
    \A j \in OccupiedSlots(f) \ {i} : Decoded(f, j) => GridSlot(f, j) # g

\* C4: when a chunk task has failed, getRegion still returns a Region in
\* which every other chunk's result is written to the grid and the failed
\* chunk's slot holds its all-0xFFFF default.
C4Claim ==
    (pc = "returned"
        /\ \E k \in 1..Len(futures) : Failed(file, futures[k].chunkIdx)) =>
        /\ \A j \in OccupiedSlots(file) :
              (Decoded(file, j) /\ OnlyAt(file, j, GridSlot(file, j))) =>
                  /\ GridSlot(file, j) \in DOMAIN data
                  /\ data[GridSlot(file, j)] = ChunkTask(file, j).chunkBlocks
        /\ \A i \in OccupiedSlots(file) :
              (Failed(file, i) /\ OnlyAt(file, i, <<SlotX(i), SlotZ(i)>>)) =>
                  ColumnIsDefault(data, SlotX(i), SlotZ(i))

\* Every future's result or failure has been taken by the collect loop.
AllCollected == \A k \in 1..Len(futures) : futures[k].state = "collected"

\* C5: getRegion returns only after every task it created has run to
\* completion and its result or failure has been collected; once it has
\* returned, no task runs and the grid is not written.
C5Theorem ==
    /\ [](pc = "returned" => (AllCollected /\ collected = Len(futures)))
    /\ [][pc = "returned" => (data' = data /\ futures' = futures
                                /\ writes' = writes /\ stray' = stray)]_vars
\* getRegion has returned after collecting a task whose chunk it wrote.
C5Witness == pc = "returned" /\ Len(futures) > 0 /\ writes # << >>

C7Claim ==
    pc = "returned" =>
        \A i \in AllSlots :
            IsZeroWord(LocationWord(TableBytes(file, i))) =>
                ColumnIsDefault(data, SlotX(i), SlotZ(i))

\* The coordinates the Region's sizes allow.
InBounds(x, y, z) ==
    /\ 0 <= x /\ x < GetSizeX
    /\ 0 <= y /\ y < GetSizeY
    /\ 0 <= z /\ z < GetSizeZ

\* C8: getBlockAt(x, y, z) with coordinates outside 0 <= x < getSizeX(),
\* 0 <= y < getSizeY(), 0 <= z < getSizeZ() reports 0xFFFF or an error and
\* never indexes outside the grid.
C8Claim ==
    (query.kind # "none" /\ ~InBounds(query.x, query.y, query.z)) =>
        /\ query.kind \in {"value", "error"}
        /\ query.kind = "value" => query.value = NoData

\* Future k is the first one collected whose chunk decoded.
FirstDecoded(k) ==
    /\ k <= collected
    /\ ChunkTask(file, futures[k].chunkIdx).kind = "ok"
    /\ \A j \in 1..(k - 1) : ChunkTask(file, futures[j].chunkIdx).kind # "ok"

\* C9: the world origin of the Region is that of the first successfully
\* decoded chunk, its world chunk coordinates divided by 32, and later
\* results do not change it.
C9Claim ==
    pc \in {"collect", "returned"} =>
        \A k \in 1..Len(futures) :
            FirstDecoded(k) =>
                LET r == ChunkTask(file, futures[k].chunkIdx)
                IN  /\ regionXWorld = r.chunkXInWorld \div N_CHUNKS_PER_REGION_XZ
                    /\ regionZWorld = r.chunkZInWorld \div N_CHUNKS_PER_REGION_XZ


\* C19: getRegion fails when the file is shorter than the SECTOR_BYTES of
\* the location table: it does not go on to the table loop, which would read
\* behind the end of the file's bytes.
C19Claim == RegionDataSize(file) < SECTOR_BYTES => pc \in {"open", "failed"}

\* A section the conversion loop can decode: a palette of names, indices
\* within it, a section slot inside the chunk that no other section has.
Decodable(secs, n) ==
    /\ secs[n].palette.isList
    /\ PaletteNames(secs[n].palette.entries).kind = "ok"
    /\ PaletteOfSection(secs[n]) # << >>
    /\ SlotOfSection(secs[n]) \in 0..(N_SECTIONS_PER_CHUNK_Y - 1)
    /\ \A m \in 1..Len(secs) :
          m # n => SlotOfSection(secs[m]) # SlotOfSection(secs[n])
    /\ \A i \in FlatIndices :
          SelectedIndex(secs[n], i) < Len(PaletteOfSection(secs[n]))
\* Some name of the section's palette is not in the dictionary.
HasUnknownName(sectionEntry) ==
    \E n \in 1..Len(PaletteOfSection(sectionEntry)) :
        PaletteOfSection(sectionEntry)[n] \notin DOMAIN BlockIdDict
\* The name the section selects for flat index i.
SelectedName(sectionEntry, i) ==
    PaletteOfSection(sectionEntry)[SelectedIndex(sectionEntry, i) + 1]

\* C20: a palette name that the dictionary lacks does not fail the chunk:
\* the cells that select it keep 0xFFFF and every other cell of the section
\* holds the id of the name it selects.
C20Claim ==
    \A k \in 1..Len(futures) :
        LET r == futures[k].result
            secs == SectionsOfSlot(file, futures[k].chunkIdx)
        IN  (futures[k].state = "ready" /\ secs # << >>
                /\ \A n \in 1..Len(secs) : Decodable(secs, n)) =>
            /\ r.kind = "ok"
            /\ \A n \in 1..Len(secs) :
                  HasUnknownName(secs[n]) =>
                  \A i \in FlatIndices :
                      SectionOf(r.chunkBlocks, SlotOfSection(secs[n]))
                          [FlatY(i)][FlatZ(i)][FlatX(i)]
                      = IF SelectedName(secs[n], i) \in DOMAIN BlockIdDict
                        THEN BlockIdDict[SelectedName(secs[n], i)]
                        ELSE NoData

----------------------------------------------------------------------------
(* Properties of ByteBuffer. *)

ReadOps == {"read", "read_n", "readString", "readByteArray", "readVector"}

\* C10: a read that would pass the end of the buffer (position + bytes asked
\* for > length, in unbounded arithmetic) fails with out_of_range and leaves
\* the position as it was, for every read operation and every size.
C10Claim ==
    (bbLast.op \in ReadOps
        /\ bbLast.pre + bbLast.size * bbLast.elem > Len(bbData)) =>
            /\ bbLast.outcome = "out_of_range"
            /\ bbPos = bbLast.pre

\* C11: after any sequence of seeks and reads, failed or not, the position
\* is at most the buffer's length; seek(pos) with pos > length fails with
\* out_of_range and leaves the position unchanged.
C11Theorem ==
    /\ bbPos <= Len(bbData)
    /\ (bbLast.op = "seek" /\ bbLast.size > Len(bbData)) =>
          /\ bbLast.outcome = "out_of_range"
          /\ bbPos = bbLast.pre
\* A seek past the end has failed after the position had moved.
C11Witness ==
    /\ bbLast.op = "seek"
    /\ bbLast.size > Len(bbData)
    /\ bbLast.outcome = "out_of_range"
    /\ bbPos > 0

ByteReadOps == {"read_n", "readString", "readByteArray"}

\* C12: a read of n bytes at position p with p + n <= length succeeds, moves
\* the position to p + n and returns the n bytes of the buffer that start at
\* p; no operation changes the buffer's bytes.
C12Theorem ==
    /\ []((bbLast.op \in ByteReadOps
             /\ bbLast.pre + bbLast.size <= Len(bbData)) =>
                /\ bbLast.outcome = "ok"
                /\ bbPos = bbLast.pre + bbLast.size
                /\ bbLast.result
                     = SubSeq(bbData, bbLast.pre + 1, bbLast.pre + bbLast.size))
    /\ [][bbData' = bbData]_vars
\* A read of several bytes from the middle of the buffer has succeeded.
C12Witness ==
    /\ bbLast.op \in ByteReadOps
    /\ bbLast.outcome = "ok"
    /\ bbLast.pre >= 1
    /\ bbLast.size >= 2
    /\ bbPos < Len(bbData)

\* C13: read<T>() of a 2, 4 or 8 byte type, integer or floating point,
\* returns the value whose big-endian encoding is the sizeof(T) bytes at the
\* position before the read.
C13Claim ==
    (bbLast.op = "read" /\ bbLast.outcome = "ok" /\ bbLast.elem > 1) =>
        bbLast.result[1] = SubSeq(bbData, bbLast.pre + 1, bbLast.pre + bbLast.elem)

----------------------------------------------------------------------------
(* Properties of NBTParser. *)

Finished == nbtResult.kind \in {"ok", "error"}
\* The children a compound tag holds when it is returned.
ChildrenOf(node) ==
    {k \in 1..Len(nbtNodes) : nbtNodes[k].parent = node /\ nbtNodes[k].live}
DistinctNames(children) ==
    \A a, b \in 1..Len(children) : a # b => children[a].name # children[b].name

\* C14: an input whose tags nest deeper than MAX_NBT_DEPTH fails with the
\* depth error, whatever follows in the buffer; no tag is constructed and
\* nothing is read at a depth above MAX_NBT_DEPTH, so a returned tree is at
\* most MAX_NBT_DEPTH deep.
C14Theorem ==
    /\ \A k \in 1..Len(nbtNodes) : nbtNodes[k].depth <= MAX_NBT_DEPTH
    /\ \A k \in 1..Len(nbtStack) :
          /\ nbtStack[k].depth <= MAX_NBT_DEPTH + 1
          /\ nbtStack[k].phase # "enter" => nbtStack[k].depth <= MAX_NBT_DEPTH
    /\ (Finished /\ nbtInput.kind \in {"compounds", "lists"}
            /\ nbtInput.depth > MAX_NBT_DEPTH) =>
          nbtResult = [kind |-> "error", what |-> "depth_exceeded"]
\* The depth error was thrown with input left in the buffer.
C14Witness ==
    /\ nbtResult = [kind |-> "error", what |-> "depth_exceeded"]
    /\ nbtInput.depth = MAX_NBT_DEPTH + 1
    /\ bbPos < Len(bbData)

\* C15: the encoding of a root compound of Int tags with distinct names
\* parses to a tree whose root holds, for each child, a tag of that name
\* with that intValue, and no other child.
C15Theorem ==
    (Finished /\ nbtInput.kind = "ints" /\ DistinctNames(nbtInput.children)) =>
        /\ nbtResult.kind = "ok"
        /\ Cardinality(ChildrenOf(1)) = Len(nbtInput.children)
        /\ \A c \in 1..Len(nbtInput.children) :
              \E k \in ChildrenOf(1) :
                  /\ nbtNodes[k].name = nbtInput.children[c].name
                  /\ nbtNodes[k].type = TagInt
                  /\ Int32Of(nbtNodes[k].value) = nbtInput.children[c].value
\* A compound of two Int tags, one of them negative, has been parsed.
C15Witness ==
    /\ nbtResult.kind = "ok"
    /\ nbtInput.kind = "ints"
    /\ Len(nbtInput.children) = 2
    /\ DistinctNames(nbtInput.children)
    /\ nbtInput.children[2].value < 0

\* C16: parseNBT reads one type byte; unless it is TagCompound it fails with
\* the root error having read and parsed nothing else; otherwise it parses
\* the root as a named compound tag.
C16Theorem ==
    (nbtResult.kind # "called" /\ bbData # << >>) =>
        IF bbData[1] # TagCompound
        THEN /\ nbtResult = [kind |-> "error", what |-> "invalid_root"]
             /\ bbPos = 1
             /\ nbtNodes = << >>
             /\ nbtStack = << >>
        ELSE /\ nbtResult # [kind |-> "error", what |-> "invalid_root"]
             /\ nbtStack # << >> =>
                   /\ nbtStack[1].type = TagCompound
                   /\ nbtStack[1].named
                   /\ nbtStack[1].depth = 0
                   /\ nbtStack[1].node = 0 => bbPos = 1
             /\ nbtNodes # << >> =>
                   /\ nbtNodes[1].type = TagCompound
                   /\ nbtNodes[1].name =
                         Bytes(3, UInt16Of(Bytes(1, 2)))
\* The root error was thrown on a buffer that holds more than the type byte.
C16Witness ==
    /\ nbtResult = [kind |-> "error", what |-> "invalid_root"]
    /\ Len(bbData) > 1

----------------------------------------------------------------------------
(* Properties of processSection and the bit length. *)

\* index is the number whose bits 0 .. w-1 are the bits shift .. shift+w-1
\* of the word, and whose other bits are zero.
IsField(index, word, shift, w) ==
    /\ \A b \in 0..(w - 1) :
          word[shift + b + 1] = (IF b < IndexBits THEN (index \div Pow2(b)) % 2 ELSE 0)
    /\ w < IndexBits => index < Pow2(w)

\* C17: processSection(data, w) returns, for each word in order, 64 / w
\* indices taken from the least significant bits upward, each the word's
\* w-bit field, and stops at 4096 indices; for w = 4 and the one word 0x21
\* the result is 1, 2 and fourteen zeros.
C17Claim ==
    (fnCall.op = "processSection" /\ fnRet.kind # "none"
        /\ fnCall.bitLength \in 1..LongBits) =>
        LET w == fnCall.bitLength
            per == LongBits \div w
        IN  /\ fnRet.kind = "ok"
            /\ Len(fnRet.result) = Min(TOTAL_SECTION_BLOCKS, Len(fnCall.data) * per)
            /\ \A k \in 1..Len(fnRet.result) :
                  IsField(fnRet.result[k], fnCall.data[((k - 1) \div per) + 1],
                          ((k - 1) % per) * w, w)
            /\ (w = 4 /\ fnCall.data = <<Word21>>) =>
                  fnRet.result = <<1, 2, 0, 0, 0, 0, 0, 0, 0, 0, 0, 0, 0, 0, 0, 0>>

\* C18: for a palette of n names, 1 <= n <= 4096, the bit length passed to
\* processSection is the least w >= 4 with 2^w >= n: 4 up to n = 16, 5 for
\* n = 17..32.
C18Theorem ==
    (fnCall.op = "bitLength" /\ fnRet.kind = "ok"
        /\ fnCall.paletteSize \in 1..TOTAL_SECTION_BLOCKS) =>
        LET n == fnCall.paletteSize
            w == fnRet.result
        IN  /\ w >= 4
            /\ Pow2(w) >= n
            /\ w > 4 => Pow2(w - 1) < n
            /\ n <= 16 => w = 4
            /\ n \in 17..32 => w = 5
\* The bit length of a palette of 17 names has been computed.
C18Witness ==
    /\ fnCall.op = "bitLength"
    /\ fnCall.paletteSize = 17
    /\ fnRet.kind = "ok"


----------------------------------------------------------------------------
(* Claims about getChunkDataStream and readAndProcessChunk, checked under  *)
(* Spec on the value a finished task has stored in its future.             *)

\* What the task of a future has stored, while get() has not yet taken it.
Ready(k) == k \in 1..Len(futures) /\ futures[k].state = "ready"
\* The location word of the slot future k was created for.
WordOf(k) == Locations(file)[futures[k].chunkIdx]
\* The slice of (w >> 8) * 4096 .. + (w & 0xFF) * 4096 lies within the file.
\* Sectors are compared: (off + cnt) * 4096 > L iff off + cnt > L \div 4096.
SliceInFile(w) == w.off + w.cnt <= RegionDataSize(file) \div SECTOR_BYTES

\* C21: for every non-zero location word w and file length L, the slice
\* getChunkDataStream hands on is the file's bytes from (w >> 8) * 4096 for
\* (w & 0xFF) * 4096 bytes, and the call fails with out_of_range whenever
\* that offset plus count exceeds L, also for a word whose byte offset does
\* not fit in 32 bits.
C21Claim ==
    \A k \in 1..Len(futures) :
        Ready(k) =>
            IF SliceInFile(WordOf(k))
            THEN futures[k].result =
                    ReadAndProcessChunk(
                        [kind |-> "ok",
                         bytes |-> WordOf(k).cnt * SECTOR_BYTES,
                         payload |-> PayloadAt(file, WordOf(k).off)],
                        BlockIdDict)
            ELSE futures[k].result = Throw("out_of_range")


\* C22: the region-local coordinates a decoded chunk is stored under are
\* xPos modulo 32 and zPos modulo 32, each in 0..31, also for negative
\* world chunk coordinates.
C22Claim ==
    \A k \in 1..Len(futures) :
        (Ready(k) /\ futures[k].result.kind = "ok") =>
            LET r == futures[k].result
            IN  /\ r.chunkXInRegion = r.chunkXInWorld % N_CHUNKS_PER_REGION_XZ
                /\ r.chunkZInRegion = r.chunkZInWorld % N_CHUNKS_PER_REGION_XZ
                /\ InGrid(r.chunkXInRegion, r.chunkZInRegion)


\* The sections of the chunk future k decoded that the loop did not skip.
DecodedSections(k) ==
    LET secs == PayloadAt(file, WordOf(k).off % WrapSectors).root.sections
    IN  {n \in 1..Len(secs) : secs[n].palette.isList}

\* C23: every palette lookup made while decoding a section that is not
\* skipped uses an index strictly less than the palette's length, also
\* when the palette list is empty or its entries carry no Name string.
C23Claim ==
    \A k \in 1..Len(futures) :
        (Ready(k) /\ futures[k].result.kind = "ok"
           /\ DecodedSections(k) # {}) => ~futures[k].result.paletteOob


\* C24: every write of a section into the chunk grid targets a slot in
\* 0..23; a section entry whose Y gives a slot outside 0..23 causes no write
\* outside the 24-section chunk grid.
C24Claim ==
    \A k \in 1..Len(futures) :
        (Ready(k) /\ futures[k].result.kind = "ok") => ~futures[k].result.outside


\* The stream getChunkDataStream returned to the task of future k.
StreamOf(k) == GetChunkDataStream(Locations(file), futures[k].chunkIdx, file)
\* The header's length field, its four bytes read as a signed big-endian
\* int, is not positive.
NonPositiveLength(p) == p.length <= 0

\* C25: readAndProcessChunk fails with the unsupported-compression error,
\* before any decompression, parsing or grid write, whenever the chunk
\* header's compression byte is not 2 or its 4-byte length field is
\* non-positive.
C25Claim ==
    \A k \in 1..Len(futures) :
        (/\ Ready(k)
         /\ StreamOf(k).kind = "ok"
         /\ StreamOf(k).bytes >= ChunkHeaderBytes
         /\ \/ StreamOf(k).payload.compression # ZLIB_COMPRESSION_TYPE
            \/ NonPositiveLength(StreamOf(k).payload))
        => futures[k].result = ThrowMsg("runtime_error", InvalidChunkMsg)


----------------------------------------------------------------------------
(* Claims about parseTag, checked under SpecNBT. *)

\* parseTag is about to run for a String tag whose name can be read; the
\* length field is at NameEnd.
NameEnd == IF Top.named THEN ReadName(bbPos).pos ELSE bbPos
StringAhead ==
    /\ nbtResult.kind = "running"
    /\ Top.phase = "enter"
    /\ Top.type = TagString
    /\ ~DepthExceeded(Top.depth)
    /\ Top.named => ReadName(bbPos).kind = "ok"
    /\ NameEnd + 2 <= Len(bbData)
\* L: the 2-byte big-endian length, in 0..65535
StringL == UInt16Of(Bytes(NameEnd, 2))

\* C26: a String tag is decoded by reading a 2-byte big-endian length L and
\* then exactly L bytes as the value, for every L in 0..65535 for which L
\* bytes remain; the cursor advances by 2 + L.
C26Claim ==
    [][(StringAhead /\ NameEnd + 2 + StringL <= Len(bbData)) =>
          /\ nbtResult'.kind = "running"
          /\ bbPos' = NameEnd + 2 + StringL
          /\ Len(nbtNodes') = Len(nbtNodes) + 1
          /\ nbtNodes'[Len(nbtNodes')].type = TagString
          /\ nbtNodes'[Len(nbtNodes')].value = Bytes(NameEnd + 2, StringL)]_vars


\* The 13 type codes of the TagType enumeration.
TagTypes == TagEnd..TagLongArray

\* C27: every tag in a tree returned by parseNBT has one of the 13 type
\* codes 0..12; a type byte outside that range, as a compound child's type
\* or as a list's element type, is rejected with a parse failure and never
\* accepted as a tag.
C27Claim ==
    nbtResult.kind = "ok" =>
        \A n \in 1..Len(nbtNodes) :
            nbtNodes[n].live => nbtNodes[n].type \in TagTypes


\* An iteration of the compound loop: it reads the type byte or fails.
CompoundIteration == nbtResult.kind = "running" /\ Top.phase = "compound"
\* An iteration of the list loop that calls parseTag for an element.
ListIteration ==
    /\ nbtResult.kind = "running"
    /\ Top.phase = "list"
    /\ Len(nbtStack') > Len(nbtStack)

\* C28: parseNBT terminates on every input buffer, returning a tree or
\* failing: every iteration of the compound loop consumes at least one byte
\* (or fails), every list loop runs at most its declared count, and no
\* activation is deeper than the depth guard allows.
C28Theorem ==
    /\ <>Finished
    /\ [][CompoundIteration => (nbtResult'.kind = "error" \/ bbPos' >= bbPos + 1)]_vars
    /\ [][ListIteration =>
            /\ Top.left >= 1
            /\ nbtStack'[Len(nbtStack)].left = Top.left - 1]_vars
    /\ [](\A k \in 1..Len(nbtStack) : nbtStack[k].depth <= MAX_NBT_DEPTH + 1)
\* parseNBT has returned a tree with a list whose loop ran three times on
\* elements that take no bytes.
C28Witness ==
    /\ nbtResult.kind = "ok"
    /\ \E n \in 1..Len(nbtNodes) :
          /\ nbtNodes[n].type = TagList
          /\ Cardinality(ChildrenOf(n)) = 3
          /\ \A c \in ChildrenOf(n) : nbtNodes[c].type = TagEnd


----------------------------------------------------------------------------
(* The Region getRegion returns, as a function of the file alone: the      *)
(* tasks' values taken in the order of their chunk indices.                *)

\* The chunk indices getRegion creates tasks for, in ascending order.
RECURSIVE Ascending(_)
Ascending(S) ==
    IF S = {} THEN << >>
    ELSE LET least == CHOOSE m \in S : \A n \in S : m <= n
         IN  <<least>> \o Ascending(S \ {least})
DispatchOrder(f) == Ascending(ToDispatch(Locations(f), 0))

\* The grid and origin after the values of the slots order[k..] have been
\* stored on top of rg = [data, x, z].
RECURSIVE StoredFrom(_, _, _, _)
StoredFrom(f, order, k, rg) ==
    IF k > Len(order) THEN rg
    ELSE LET r == ChunkTask(f, order[k])
             slot == <<r.chunkXInRegion, r.chunkZInRegion>>
             unset == rg.x = NoRegion \/ rg.z = NoRegion
         IN  IF r.kind # "ok" THEN StoredFrom(f, order, k + 1, rg)
             ELSE StoredFrom(f, order, k + 1,
                    [data |-> IF InGrid(slot[1], slot[2])
                              THEN [t \in (DOMAIN rg.data) \cup {slot} |->
                                      IF t = slot THEN r.chunkBlocks ELSE rg.data[t]]
                              ELSE rg.data,
                     x |-> IF unset
                           THEN r.chunkXInWorld - r.chunkXInRegion * SECTION_SIZE
                           ELSE rg.x,
                     z |-> IF unset
                           THEN r.chunkZInWorld - r.chunkZInRegion * SECTION_SIZE
                           ELSE rg.z])
RegionOf(f) ==
    StoredFrom(f, DispatchOrder(f), 1, [data |-> << >>, x |-> NoRegion, z |-> NoRegion])

----------------------------------------------------------------------------
(* Renderer shutdown, checked under SpecRenderer. *)

\* C30: once the destructor has set stopThreads and called notify_all,
\* every worker thread eventually leaves workerFunction and every join
\* returns, also when the destructor runs while a worker is between
\* evaluating the wait predicate and blocking on the condition variable.
C30Claim == (mainPc = "join") ~> (mainPc = "destroyed")

=============================================================================
